---- MODULE Spec2Model ----
(***************************************************************************)
(* Model of packages/brand-system/bin/schema_validate.py: the fallback     *)
(* structural validator (resolve_pointer, resolve_ref, type_matches,       *)
(* validate, validate_file) and the process-wide SCHEMA_CACHE.             *)
(*                                                                         *)
(* Encoding of Python values.                                              *)
(*   A JSON value is a record tagged by k:                                 *)
(*     [k |-> "null"], [k |-> "bool", b], [k |-> "int", n],                *)
(*     [k |-> "float", h]   (the float h/2),                               *)
(*     [k |-> "str", s]     (s a sequence of symbols, see below),          *)
(*     [k |-> "list", l]    (l a sequence of JSON values),                 *)
(*     [k |-> "dict", keys, d]  (keys: the keys in insertion order as      *)
(*                               TLA+ strings, d: key -> JSON value).      *)
(*   A Python str that the code parses (a $ref, a pointer, a path) is a    *)
(*   sequence of symbols: each of the characters # / ~ 0 1 is a symbol of  *)
(*   its own, every other symbol is a run of other characters ("." and     *)
(*   ".." are such runs).  Join gives the str as one TLA+ string.          *)
(***************************************************************************)
EXTENDS Integers, Sequences, FiniteSets, TLC

(* ------------------------------------------------------------------ *)
(* Bounds of the model.                                                *)

\* Nested validate frames the interpreter allows before RecursionError.
RecursionLimit == 8
\* validate_file calls made in one session (process).
MaxCalls == 2
\* The int instances handed to validate are 0..MaxNum.
MaxNum == 3
\* Entries in the three lists of a system manifest, taken together.
MaxEntries == 2
\* Characters of a pointer handed to resolve_pointer or resolve_ref.
MaxPointerLen == 5
\* Expected outputs in the manifest that compile-system.py stamps.
MaxOutputs == 2

(* ------------------------------------------------------------------ *)
(* Python str as a sequence of symbols.                                *)

RECURSIVE Join(_)
Join(s) == IF s = <<>> THEN "" ELSE Head(s) \o Join(Tail(s))

RECURSIVE PyLen(_)
PyLen(s) == IF s = <<>> THEN 0 ELSE Len(Head(s)) + PyLen(Tail(s))

StartsWith(s, sym) == s # <<>> /\ Head(s) = sym

\* Index of the first / last occurrence of sym in s, 0 when there is none.
Find(s, sym) ==
  IF \E i \in 1..Len(s) : s[i] = sym
  THEN CHOOSE i \in 1..Len(s) : s[i] = sym /\ \A j \in 1..(i - 1) : s[j] # sym
  ELSE 0

RFind(s, sym) ==
  IF \E i \in 1..Len(s) : s[i] = sym
  THEN CHOOSE i \in 1..Len(s) : s[i] = sym /\ \A j \in (i + 1)..Len(s) : s[j] # sym
  ELSE 0

\* str.split(sep): always at least one part, parts may be empty.
RECURSIVE Split(_, _)
Split(s, sep) ==
  LET i == Find(s, sep)
  IN IF i = 0 THEN <<s>>
     ELSE <<SubSeq(s, 1, i - 1)>> \o Split(SubSeq(s, i + 1, Len(s)), sep)

\* str.replace of the two-symbol string a1 a2 by the symbol b, left to right.
RECURSIVE Replace2(_, _, _, _)
Replace2(s, a1, a2, b) ==
  IF Len(s) < 2 THEN s
  ELSE IF s[1] = a1 /\ s[2] = a2
       THEN <<b>> \o Replace2(SubSeq(s, 3, Len(s)), a1, a2, b)
       ELSE <<s[1]>> \o Replace2(Tail(s), a1, a2, b)

\* '/'.join(parts)
RECURSIVE JoinWith(_, _)
JoinWith(parts, sep) ==
  IF parts = <<>> THEN <<>>
  ELSE IF Len(parts) = 1 THEN parts[1]
  ELSE parts[1] \o <<sep>> \o JoinWith(Tail(parts), sep)

\* str.rstrip('/')
RECURSIVE RStrip(_, _)
RStrip(s, sym) ==
  IF s # <<>> /\ s[Len(s)] = sym THEN RStrip(SubSeq(s, 1, Len(s) - 1), sym) ELSE s

(* ------------------------------------------------------------------ *)
(* os.path (posixpath).                                                *)

PathJoin(a, b) ==
  IF StartsWith(b, "/") THEN b
  ELSE IF a = <<>> \/ a[Len(a)] = "/" THEN a \o b
  ELSE a \o <<"/">> \o b

RECURSIVE NormComps(_, _, _)
NormComps(comps, new_comps, initial_slashes) ==
  IF comps = <<>> THEN new_comps
  ELSE LET comp == Head(comps)
           n    == Len(new_comps)
       IN IF comp = <<>> \/ comp = <<".">>
          THEN NormComps(Tail(comps), new_comps, initial_slashes)
          ELSE IF \/ comp # <<"..">>
                  \/ (~initial_slashes /\ n = 0)
                  \/ (n > 0 /\ new_comps[n] = <<"..">>)
          THEN NormComps(Tail(comps), Append(new_comps, comp), initial_slashes)
          ELSE IF n > 0
          THEN NormComps(Tail(comps), SubSeq(new_comps, 1, n - 1), initial_slashes)
          ELSE NormComps(Tail(comps), new_comps, initial_slashes)

\* A leading '//' is treated as a leading '/'.
NormPath(path) ==
  IF path = <<>> THEN <<".">>
  ELSE LET initial_slashes == StartsWith(path, "/")
           joined == JoinWith(NormComps(Split(path, "/"), <<>>, initial_slashes), "/")
           res    == IF initial_slashes THEN <<"/">> \o joined ELSE joined
       IN IF res = <<>> THEN <<".">> ELSE res

DirName(p) ==
  LET i    == RFind(p, "/")
      head == SubSeq(p, 1, i)
  IN IF head # <<>> /\ \E j \in 1..Len(head) : head[j] # "/"
     THEN RStrip(head, "/")
     ELSE head

(* ------------------------------------------------------------------ *)
(* JSON values.                                                        *)

Null      == [k |-> "null"]
Bool(b)   == [k |-> "bool", b |-> b]
Int_(n)   == [k |-> "int", n |-> n]
Float2(h) == [k |-> "float", h |-> h]
Str(s)    == [k |-> "str", s |-> s]
List(l)   == [k |-> "list", l |-> l]
\* A dict from its items, <<key, value>> pairs with distinct keys, in order.
Dict(items) ==
  [k    |-> "dict",
   keys |-> [i \in 1..Len(items) |-> items[i][1]],
   d    |-> [key \in {items[i][1] : i \in 1..Len(items)} |->
               items[CHOOSE i \in 1..Len(items) : items[i][1] = key][2]]]

IsDict(v)   == v.k = "dict"
IsList(v)   == v.k = "list"
IsStr(v)    == v.k = "str"
IsBool(v)   == v.k = "bool"
IsNone(v)   == v.k = "null"
\* isinstance(v, int): bool is a subclass of int.
IsIntInst(v) == v.k \in {"int", "bool"}
\* isinstance(v, (int, float)) and not isinstance(v, bool)
IsNumber(v) == v.k \in {"int", "float"}

\* key in d, d[key], d.get(key, default) for a dict d.
Has(d, key)          == key \in DOMAIN d.d
Get(d, key, default) == IF Has(d, key) THEN d.d[key] ELSE default

\* Twice the numeric value of an int, float or bool (True is 1).
Twice(v) ==
  CASE v.k = "int"   -> 2 * v.n
    [] v.k = "float" -> v.h
    [] v.k = "bool"  -> IF v.b THEN 2 ELSE 0

(* ------------------------------------------------------------------ *)
(* Exceptions.                                                         *)

NoExc == [type |-> "", args |-> <<>>]
Exc(type, args) == [type |-> type, args |-> args]

\* F applied to the value v: names a value that is computed once and used often.
Bind(v, F(_)) == F(v)

(* ------------------------------------------------------------------ *)
(* Storage and load_json.                                              *)
(* Storage maps the normalized path of a file (as a string) to         *)
(* [kind |-> "json", doc |-> v] or [kind |-> "malformed"]; a path      *)
(* outside its domain does not exist.  open() resolves "." and ".."    *)
(* as the operating system does, so any spelling reaches the file.     *)

FileId(path) == Join(NormPath(path))

\* A ghost counter: load_json calls that opened and parsed each file.
CountParse(parses, id) ==
  IF id \in DOMAIN parses THEN [parses EXCEPT ![id] = @ + 1] ELSE parses @@ (id :> 1)

load_json(path, fs, parses) ==
  LET id == FileId(path)
  IN IF id \notin DOMAIN fs
     THEN [exc |-> Exc("FileNotFoundError", <<Join(path)>>), doc |-> Null, parses |-> parses]
     ELSE IF fs[id].kind # "json"
     THEN [exc |-> Exc("JSONDecodeError", <<>>), doc |-> Null,
           parses |-> CountParse(parses, id)]
     ELSE [exc |-> NoExc, doc |-> fs[id].doc, parses |-> CountParse(parses, id)]

(* ------------------------------------------------------------------ *)
(* resolve_pointer                                                     *)

\* The two replacements in the other order: "~0" first.
UnescapeTildeFirst(part) == Replace2(Replace2(part, "~", "0", "~"), "~", "1", "/")

\* part.replace("~1", "/").replace("~0", "~")
Unescape(part) == Replace2(Replace2(part, "~", "1", "/"), "~", "0", "~")

\* current[part] for a str part: only a dict can be subscripted by a str.
Subscript(current, part) ==
  IF IsDict(current)
  THEN IF Has(current, Join(part))
       THEN [exc |-> NoExc, node |-> current.d[Join(part)]]
       ELSE [exc |-> Exc("KeyError", <<Join(part)>>), node |-> Null]
  ELSE [exc |-> Exc("TypeError", <<>>), node |-> Null]

RECURSIVE Descend(_, _)
Descend(current, parts) ==
  IF parts = <<>> THEN [exc |-> NoExc, node |-> current]
  ELSE LET step == Subscript(current, Unescape(Head(parts)))
       IN IF step.exc # NoExc THEN step ELSE Descend(step.node, Tail(parts))

\* A resolver without the case of line 25 for the pointer "#".
resolve_pointer_by_segments(schema, pointer) ==
  IF pointer = <<>> THEN [exc |-> NoExc, node |-> schema]
  ELSE LET p1 == IF StartsWith(pointer, "#") THEN Tail(pointer) ELSE pointer
           p2 == IF StartsWith(p1, "/") THEN Tail(p1) ELSE p1
       IN Descend(schema, Split(p2, "/"))

resolve_pointer(schema, pointer) ==
  IF pointer = <<>> \/ pointer = <<"#">> THEN [exc |-> NoExc, node |-> schema]
  ELSE LET p1 == IF StartsWith(pointer, "#") THEN Tail(pointer) ELSE pointer
           p2 == IF StartsWith(p1, "/") THEN Tail(p1) ELSE p1
       IN IF p2 = <<>> THEN [exc |-> NoExc, node |-> schema]
          ELSE Descend(schema, Split(p2, "/"))

(* ------------------------------------------------------------------ *)
(* resolve_ref                                                         *)
(* Returns the target, the new base directory and the new root, with   *)
(* SCHEMA_CACHE (and the ghost parse counter) as the call leaves them, *)
(* also when it raises.                                                *)

\* A lookup that reads the file again on every reference and stores what it read.
CacheLoadAfresh(file_path, fs, cache, parses) ==
  Bind(load_json(file_path, fs, parses), LAMBDA ld :
    IF ld.exc # NoExc
    THEN [exc |-> ld.exc, cache |-> cache, parses |-> ld.parses]
    ELSE [exc |-> NoExc,
          cache |-> [fp \in (DOMAIN cache) \cup {file_path} |->
                       IF fp = file_path THEN ld.doc ELSE cache[fp]],
          parses |-> ld.parses])

\* lines 46-47: SCHEMA_CACHE after the lookup of file_path, loaded on a miss.
\* The keys of SCHEMA_CACHE are the str file_path, as sequences of symbols.
CacheLoad(file_path, fs, cache, parses) ==
  IF file_path \in DOMAIN cache
  THEN [exc |-> NoExc, cache |-> cache, parses |-> parses]
  ELSE Bind(load_json(file_path, fs, parses), LAMBDA ld :
         IF ld.exc # NoExc
         THEN [exc |-> ld.exc, cache |-> cache, parses |-> ld.parses]
         ELSE [exc |-> NoExc, cache |-> cache @@ (file_path :> ld.doc),
               parses |-> ld.parses])

\* A resolver that forgets to move the base directory (line 50 returning
\* base_dir instead of os.path.dirname(file_path)).
ResolveFileRefKeepingBase(file_path, pointer, base_dir, root_schema, fs, cache, parses) ==
  Bind(CacheLoad(file_path, fs, cache, parses), LAMBDA c :
    IF c.exc # NoExc
    THEN [exc |-> c.exc, target |-> Null, base |-> base_dir, root |-> root_schema,
          cache |-> c.cache, parses |-> c.parses]
    ELSE Bind(resolve_pointer(c.cache[file_path],
                              IF pointer # <<>> THEN <<"#">> \o pointer ELSE <<"#">>),
           LAMBDA t :
             [exc |-> t.exc, target |-> t.node, base |-> base_dir,
              root |-> c.cache[file_path], cache |-> c.cache, parses |-> c.parses]))

\* lines 45-50, for the file_path of line 45
ResolveFileRef(file_path, pointer, base_dir, root_schema, fs, cache, parses) ==
  Bind(CacheLoad(file_path, fs, cache, parses), LAMBDA c :
    IF c.exc # NoExc
    THEN [exc |-> c.exc, target |-> Null, base |-> base_dir, root |-> root_schema,
          cache |-> c.cache, parses |-> c.parses]
    ELSE Bind(resolve_pointer(c.cache[file_path],
                              IF pointer # <<>> THEN <<"#">> \o pointer ELSE <<"#">>),
           LAMBDA t :
             [exc |-> t.exc, target |-> t.node, base |-> DirName(file_path),
              root |-> c.cache[file_path], cache |-> c.cache, parses |-> c.parses]))

\* ref.partition("#")
Partition(ref) ==
  LET i == Find(ref, "#")
  IN IF i = 0 THEN [file_part |-> ref, pointer |-> <<>>]
     ELSE [file_part |-> SubSeq(ref, 1, i - 1), pointer |-> SubSeq(ref, i + 1, Len(ref))]

\* A resolver that keeps the root document in the cache under the base
\* directory when the reference points into it.
resolve_ref_caching_root(ref, base_dir, root_schema, fs, cache, parses) ==
  IF StartsWith(ref, "#")
  THEN Bind(resolve_pointer(root_schema, ref), LAMBDA t :
         [exc |-> t.exc, target |-> t.node, base |-> base_dir, root |-> root_schema,
          cache |-> [fp \in (DOMAIN cache) \cup {base_dir} |->
                       IF fp = base_dir THEN root_schema ELSE cache[fp]],
          parses |-> parses])
  ELSE Bind(Partition(ref), LAMBDA p :
         ResolveFileRef(NormPath(PathJoin(base_dir, p.file_part)), p.pointer,
                        base_dir, root_schema, fs, cache, parses))

resolve_ref(ref, base_dir, root_schema, fs, cache, parses) ==
  IF StartsWith(ref, "#")
  THEN Bind(resolve_pointer(root_schema, ref), LAMBDA t :
         [exc |-> t.exc, target |-> t.node, base |-> base_dir, root |-> root_schema,
          cache |-> cache, parses |-> parses])
  ELSE Bind(Partition(ref), LAMBDA p :
         ResolveFileRef(NormPath(PathJoin(base_dir, p.file_part)), p.pointer,
                        base_dir, root_schema, fs, cache, parses))

(* ------------------------------------------------------------------ *)
(* type_matches                                                        *)

\* expected == "<name>" for a JSON value expected
IsName(expected, name) == IsStr(expected) /\ Join(expected.s) = name

\* A test that takes only a float for "number" (isinstance(instance, float)).
type_matches_float_number(instance, expected) ==
  IF IsName(expected, "object") THEN IsDict(instance)
  ELSE IF IsName(expected, "array") THEN IsList(instance)
  ELSE IF IsName(expected, "string") THEN IsStr(instance)
  ELSE IF IsName(expected, "number") THEN instance.k = "float"
  ELSE IF IsName(expected, "integer") THEN IsIntInst(instance) /\ ~IsBool(instance)
  ELSE IF IsName(expected, "boolean") THEN IsBool(instance)
  ELSE IF IsName(expected, "null") THEN IsNone(instance)
  ELSE FALSE

type_matches(instance, expected) ==
  IF IsName(expected, "object") THEN IsDict(instance)
  ELSE IF IsName(expected, "array") THEN IsList(instance)
  ELSE IF IsName(expected, "string") THEN IsStr(instance)
  ELSE IF IsName(expected, "number") THEN IsNumber(instance)
  ELSE IF IsName(expected, "integer") THEN IsIntInst(instance) /\ ~IsBool(instance)
  ELSE IF IsName(expected, "boolean") THEN IsBool(instance)
  ELSE IF IsName(expected, "null") THEN IsNone(instance)
  ELSE FALSE

(* ------------------------------------------------------------------ *)
(* Python renderings used in the error messages.                       *)

\* str(v) of an int or a float (floats of the model are not negative).
PyNum(v) ==
  IF v.k = "int" THEN ToString(v.n)
  ELSE ToString(v.h \div 2) \o (IF v.h % 2 = 0 THEN ".0" ELSE ".5")

RECURSIVE PyRepr(_)
RECURSIVE ReprList(_)
RECURSIVE ReprItems(_, _)
PyRepr(v) ==
  CASE v.k = "null"  -> "None"
    [] v.k = "bool"  -> IF v.b THEN "True" ELSE "False"
    [] v.k = "int"   -> PyNum(v)
    [] v.k = "float" -> PyNum(v)
    [] v.k = "str"   -> "'" \o Join(v.s) \o "'"
    [] v.k = "list"  -> "[" \o ReprList(v.l) \o "]"
    [] v.k = "dict"  -> "{" \o ReprItems(v.keys, v.d) \o "}"
ReprList(l) ==
  IF l = <<>> THEN ""
  ELSE IF Len(l) = 1 THEN PyRepr(l[1])
  ELSE PyRepr(l[1]) \o ", " \o ReprList(Tail(l))
ReprItems(keys, d) ==
  IF keys = <<>> THEN ""
  ELSE LET one == "'" \o keys[1] \o "': " \o PyRepr(d[keys[1]])
       IN IF Len(keys) = 1 THEN one ELSE one \o ", " \o ReprItems(Tail(keys), d)

\* f"{v}": str(v), which is the text itself for a str and repr otherwise.
PyFormat(v) == IF IsStr(v) THEN Join(v.s) ELSE PyRepr(v)

\* a == b
RECURSIVE PyEq(_, _)
PyEq(a, b) ==
  CASE a.k \in {"int", "float", "bool"} ->
         b.k \in {"int", "float", "bool"} /\ Twice(a) = Twice(b)
    [] a.k = "null" -> b.k = "null"
    [] a.k = "str"  -> b.k = "str" /\ Join(a.s) = Join(b.s)
    [] a.k = "list" -> /\ b.k = "list"
                       /\ Len(a.l) = Len(b.l)
                       /\ \A i \in 1..Len(a.l) : PyEq(a.l[i], b.l[i])
    [] a.k = "dict" -> /\ b.k = "dict"
                       /\ DOMAIN a.d = DOMAIN b.d
                       /\ \A key \in DOMAIN a.d : PyEq(a.d[key], b.d[key])

\* re.search(pattern, text) is not None, for the patterns of the model:
\* "^[A-Z]" matches a text that starts with an upper-case letter.
UpperInitial == {"A", "Abc", "Acme"}
ReSearch(pattern, text) ==
  CASE Join(pattern) = "^[A-Z]" -> text # <<>> /\ Head(text) \in UpperInitial

(* ------------------------------------------------------------------ *)
(* validate                                                            *)
(* A frame is the state of one validate call: its errors list, the     *)
(* exception raised in it (NoExc: none), whether it has returned, and  *)
(* the process state the call works on: SCHEMA_CACHE, the ghost parse  *)
(* counter, and the ghost trace of the (schema, base_dir, root_schema) *)
(* of every validate call entered so far; and args, the objects passed *)
(* as instance, schema and root_schema as the call leaves them.        *)
(* cx holds the arguments of the call: instance, schema, base_dir,     *)
(* root_schema, path, the depth of the frame, and the storage.         *)

NewFrame(m, args) ==
  [errors |-> <<>>, exc |-> NoExc, ret |-> FALSE,
   cache |-> m.cache, parses |-> m.parses, trace |-> m.trace, args |-> args]

Machine(f) == [cache |-> f.cache, parses |-> f.parses, trace |-> f.trace]

Raise(f, exc)  == [f EXCEPT !.exc = exc]
Error(f, text) == [f EXCEPT !.errors = Append(@, text)]

\* errors.extend(<result of the nested call sub>), or its exception.
Extend(f, sub) ==
  [errors |-> IF sub.exc = NoExc THEN f.errors \o sub.errors ELSE f.errors,
   exc |-> sub.exc, ret |-> f.ret,
   cache |-> sub.cache, parses |-> sub.parses, trace |-> sub.trace, args |-> f.args]

Live(f) == f.exc = NoExc /\ ~f.ret

\* What "$ref" in schema ... schema.get("type") raise for a schema that is no dict.
NonDictExc(schema) ==
  IF schema.k = "list"
  THEN IF \E i \in 1..Len(schema.l) :
            IsStr(schema.l[i]) /\ Join(schema.l[i].s) \in {"$ref", "anyOf"}
       THEN Exc("TypeError", <<>>) ELSE Exc("AttributeError", <<>>)
  ELSE IF schema.k = "str"
  THEN IF \E i \in 1..Len(schema.s) : schema.s[i] \in {"$ref", "anyOf"}
       THEN Exc("TypeError", <<>>) ELSE Exc("AttributeError", <<>>)
  ELSE Exc("TypeError", <<>>)

\* validate and the steps of its body call each other.
RECURSIVE validate(_, _, _, _, _, _, _, _)
RECURSIVE Nested(_, _, _, _, _, _, _)
RECURSIVE RefStep(_, _)
RECURSIVE AnyOfStep(_, _)
RECURSIVE ListStep(_, _)
RECURSIVE DictStep(_, _)

\* A nested call validate(instance, schema, base_dir, root_schema, path) made by
\* the frame of cx, on the process state m.
Nested(instance, schema, base_dir, root_schema, path, cx, m) ==
  validate(instance, schema, base_dir, root_schema, path, cx.depth + 1, cx.fs, m)

RECURSIVE AnyOfLoop(_, _, _, _)
RECURSIVE ItemsLoop(_, _, _, _)
RECURSIVE PropertiesLoop(_, _, _)

\* A $ref step that extends the path by the keyword it follows.
RefStepDescending(f, cx) ==
  IF ~Live(f) \/ ~Has(cx.schema, "$ref") THEN f
  ELSE IF ~IsStr(cx.schema.d["$ref"]) THEN Raise(f, Exc("AttributeError", <<>>))
  ELSE Bind(resolve_ref(cx.schema.d["$ref"].s, cx.base_dir, cx.root_schema, cx.fs,
                        f.cache, f.parses),
         LAMBDA r :
           IF r.exc # NoExc
           THEN Raise([f EXCEPT !.cache = r.cache, !.parses = r.parses], r.exc)
           ELSE Extend([f EXCEPT !.cache = r.cache, !.parses = r.parses],
                       Nested(cx.instance, r.target, r.base, r.root,
                              cx.path \o ".$ref", cx,
                              [cache |-> r.cache, parses |-> r.parses,
                               trace |-> f.trace])))

\* A $ref step after which the node's other keywords are not read: the target
\* stands for the node.
RefStepReplacing(f, cx) ==
  IF ~Live(f) \/ ~Has(cx.schema, "$ref") THEN f
  ELSE IF ~IsStr(cx.schema.d["$ref"]) THEN Raise(f, Exc("AttributeError", <<>>))
  ELSE Bind(resolve_ref(cx.schema.d["$ref"].s, cx.base_dir, cx.root_schema, cx.fs,
                        f.cache, f.parses),
         LAMBDA r :
           IF r.exc # NoExc
           THEN Raise([f EXCEPT !.cache = r.cache, !.parses = r.parses], r.exc)
           ELSE [Extend([f EXCEPT !.cache = r.cache, !.parses = r.parses],
                        Nested(cx.instance, r.target, r.base, r.root, cx.path, cx,
                               [cache |-> r.cache, parses |-> r.parses,
                                trace |-> f.trace]))
                   EXCEPT !.ret = TRUE])

\* lines 74-76
RefStep(f, cx) ==
  IF ~Live(f) \/ ~Has(cx.schema, "$ref") THEN f
  ELSE IF ~IsStr(cx.schema.d["$ref"]) THEN Raise(f, Exc("AttributeError", <<>>))
  ELSE Bind(resolve_ref(cx.schema.d["$ref"].s, cx.base_dir, cx.root_schema, cx.fs,
                        f.cache, f.parses),
         LAMBDA r :
           IF r.exc # NoExc
           THEN Raise([f EXCEPT !.cache = r.cache, !.parses = r.parses], r.exc)
           ELSE Extend([f EXCEPT !.cache = r.cache, !.parses = r.parses],
                       Nested(cx.instance, r.target, r.base, r.root, cx.path, cx,
                              [cache |-> r.cache, parses |-> r.parses,
                               trace |-> f.trace])))

\* A loop over the options that takes an option that raised for one that failed
\* (a try/except around line 81).
RECURSIVE AnyOfLoopCatching(_, _, _, _)
AnyOfLoopCatching(options, anyof_errors, cx, m) ==
  IF options = <<>>
  THEN [exc |-> NoExc, anyof_errors |-> anyof_errors, m |-> m]
  ELSE Bind(Nested(cx.instance, Head(options), cx.base_dir, cx.root_schema, cx.path, cx, m),
         LAMBDA sub :
           IF sub.exc = NoExc /\ sub.errors = <<>>
           THEN [exc |-> NoExc, anyof_errors |-> <<>>, m |-> Machine(sub)]
           ELSE AnyOfLoopCatching(Tail(options), Append(anyof_errors, sub.errors), cx,
                                  Machine(sub)))

\* lines 80-85: the loop over the options; anyof_errors is the list so far.
AnyOfLoop(options, anyof_errors, cx, m) ==
  IF options = <<>>
  THEN [exc |-> NoExc, anyof_errors |-> anyof_errors, m |-> m]
  ELSE Bind(Nested(cx.instance, Head(options), cx.base_dir, cx.root_schema, cx.path, cx, m),
         LAMBDA sub :
           IF sub.exc # NoExc
           THEN [exc |-> sub.exc, anyof_errors |-> anyof_errors, m |-> Machine(sub)]
           ELSE IF sub.errors = <<>>
           THEN [exc |-> NoExc, anyof_errors |-> <<>>, m |-> Machine(sub)]
           ELSE AnyOfLoop(Tail(options), Append(anyof_errors, sub.errors), cx,
                          Machine(sub)))

\* An anyOf step that also hands on the errors of the first failed option.
AnyOfStepKeepingErrors(f, cx) ==
  IF ~Live(f) \/ ~Has(cx.schema, "anyOf") THEN f
  ELSE IF ~IsList(cx.schema.d["anyOf"]) THEN Raise(f, Exc("TypeError", <<>>))
  ELSE Bind(AnyOfLoop(cx.schema.d["anyOf"].l, <<>>, cx, Machine(f)), LAMBDA lp :
         Bind([f EXCEPT !.cache = lp.m.cache, !.parses = lp.m.parses,
                        !.trace = lp.m.trace],
           LAMBDA f1 :
             IF lp.exc # NoExc THEN Raise(f1, lp.exc)
             ELSE IF lp.anyof_errors # <<>>
             THEN Error([f1 EXCEPT !.errors = @ \o Head(lp.anyof_errors)],
                        cx.path \o ": does not match anyOf options")
             ELSE f1))

\* lines 78-87
AnyOfStep(f, cx) ==
  IF ~Live(f) \/ ~Has(cx.schema, "anyOf") THEN f
  ELSE IF ~IsList(cx.schema.d["anyOf"]) THEN Raise(f, Exc("TypeError", <<>>))
  ELSE Bind(AnyOfLoop(cx.schema.d["anyOf"].l, <<>>, cx, Machine(f)), LAMBDA lp :
         Bind([f EXCEPT !.cache = lp.m.cache, !.parses = lp.m.parses,
                        !.trace = lp.m.trace],
           LAMBDA f1 :
             IF lp.exc # NoExc THEN Raise(f1, lp.exc)
             ELSE IF lp.anyof_errors # <<>>
             THEN Error(f1, cx.path \o ": does not match anyOf options")
             ELSE f1))

\* A type step without the return of line 98.
TypeStepGoingOn(f, cx) ==
  IF ~Live(f) THEN f
  ELSE LET expected_type == Get(cx.schema, "type", Null)
           matches ==
             IF IsList(expected_type)
             THEN \E i \in 1..Len(expected_type.l) :
                     type_matches(cx.instance, expected_type.l[i])
             ELSE type_matches(cx.instance, expected_type)
       IN IF IsNone(expected_type) \/ matches THEN f
          ELSE Error(f, cx.path \o ": expected type " \o PyFormat(expected_type))

\* lines 89-98
TypeStep(f, cx) ==
  IF ~Live(f) THEN f
  ELSE LET expected_type == Get(cx.schema, "type", Null)
           matches ==
             IF IsList(expected_type)
             THEN \E i \in 1..Len(expected_type.l) :
                     type_matches(cx.instance, expected_type.l[i])
             ELSE type_matches(cx.instance, expected_type)
       IN IF IsNone(expected_type) \/ matches THEN f
          ELSE [Error(f, cx.path \o ": expected type " \o PyFormat(expected_type))
                  EXCEPT !.ret = TRUE]

\* An enum step that also knows "const": the instance is to equal its value.
EnumStepWithConst(f, cx) ==
  IF ~Live(f) THEN f
  ELSE LET f1 == IF Has(cx.schema, "const") /\ ~PyEq(cx.instance, cx.schema.d["const"])
                 THEN Error(f, cx.path \o ": value is not the const")
                 ELSE f
       IN IF ~Has(cx.schema, "enum") THEN f1
          ELSE IF \E i \in 1..Len(cx.schema.d["enum"].l) :
                     PyEq(cx.instance, cx.schema.d["enum"].l[i])
          THEN f1
          ELSE Error(f1, cx.path \o ": value " \o PyRepr(cx.instance) \o " not in enum")

\* lines 100-101
EnumStep(f, cx) ==
  IF ~Live(f) \/ ~Has(cx.schema, "enum") THEN f
  ELSE LET enum == cx.schema.d["enum"].l
       IN IF \E i \in 1..Len(enum) : PyEq(cx.instance, enum[i]) THEN f
          ELSE Error(f, cx.path \o ": value " \o PyRepr(cx.instance) \o " not in enum")

\* lines 103-109
StringStep(f, cx) ==
  IF ~Live(f) \/ ~IsStr(cx.instance) THEN f
  ELSE LET min_length == Get(cx.schema, "minLength", Null)
           pattern    == Get(cx.schema, "pattern", Null)
           f1 == IF ~IsNone(min_length) /\ 2 * PyLen(cx.instance.s) < Twice(min_length)
                 THEN Error(f, cx.path \o ": string length < " \o PyFormat(min_length))
                 ELSE f
       IN IF ~IsNone(pattern) /\ pattern.s # <<>> /\ ~ReSearch(pattern.s, cx.instance.s)
          THEN Error(f1, cx.path \o ": string does not match pattern " \o PyRepr(pattern))
          ELSE f1

\* A numeric step that looks at maximum only when minimum is satisfied (elif).
NumberStepEitherOr(f, cx) ==
  IF ~Live(f) \/ ~IsNumber(cx.instance) THEN f
  ELSE LET minimum == Get(cx.schema, "minimum", Null)
           maximum == Get(cx.schema, "maximum", Null)
       IN IF ~IsNone(minimum) /\ Twice(cx.instance) < Twice(minimum)
          THEN Error(f, cx.path \o ": value " \o PyNum(cx.instance)
                        \o " < minimum " \o PyFormat(minimum))
          ELSE IF ~IsNone(maximum) /\ Twice(cx.instance) > Twice(maximum)
          THEN Error(f, cx.path \o ": value " \o PyNum(cx.instance)
                        \o " > maximum " \o PyFormat(maximum))
          ELSE f

\* lines 111-117
NumberStep(f, cx) ==
  IF ~Live(f) \/ ~IsNumber(cx.instance) THEN f
  ELSE LET minimum == Get(cx.schema, "minimum", Null)
           maximum == Get(cx.schema, "maximum", Null)
           f1 == IF ~IsNone(minimum) /\ Twice(cx.instance) < Twice(minimum)
                 THEN Error(f, cx.path \o ": value " \o PyNum(cx.instance)
                               \o " < minimum " \o PyFormat(minimum))
                 ELSE f
       IN IF ~IsNone(maximum) /\ Twice(cx.instance) > Twice(maximum)
          THEN Error(f1, cx.path \o ": value " \o PyNum(cx.instance)
                         \o " > maximum " \o PyFormat(maximum))
          ELSE f1

\* lines 128-129: the loop over enumerate(instance), from index idx (0-based).
ItemsLoop(idx, item_schema, f, cx) ==
  IF f.exc # NoExc \/ idx >= Len(cx.instance.l) THEN f
  ELSE ItemsLoop(idx + 1, item_schema,
         Extend(f, Nested(cx.instance.l[idx + 1], item_schema, cx.base_dir,
                          cx.root_schema, cx.path \o "[" \o ToString(idx) \o "]",
                          cx, Machine(f))),
         cx)

\* A sequence step whose bounds are exclusive (<= and >= for < and >).
ListStepExclusive(f, cx) ==
  IF ~Live(f) \/ ~IsList(cx.instance) THEN f
  ELSE LET min_items == Get(cx.schema, "minItems", Null)
           max_items == Get(cx.schema, "maxItems", Null)
           f1 == IF ~IsNone(min_items) /\ 2 * Len(cx.instance.l) <= Twice(min_items)
                 THEN Error(f, cx.path \o ": array has fewer than "
                               \o PyFormat(min_items) \o " items")
                 ELSE f
           f2 == IF ~IsNone(max_items) /\ 2 * Len(cx.instance.l) >= Twice(max_items)
                 THEN Error(f1, cx.path \o ": array has more than "
                                \o PyFormat(max_items) \o " items")
                 ELSE f1
       IN IF Has(cx.schema, "items")
          THEN ItemsLoop(0, cx.schema.d["items"], f2, cx)
          ELSE f2

\* lines 119-129
ListStep(f, cx) ==
  IF ~Live(f) \/ ~IsList(cx.instance) THEN f
  ELSE LET min_items == Get(cx.schema, "minItems", Null)
           max_items == Get(cx.schema, "maxItems", Null)
           f1 == IF ~IsNone(min_items) /\ 2 * Len(cx.instance.l) < Twice(min_items)
                 THEN Error(f, cx.path \o ": array has fewer than "
                               \o PyFormat(min_items) \o " items")
                 ELSE f
           f2 == IF ~IsNone(max_items) /\ 2 * Len(cx.instance.l) > Twice(max_items)
                 THEN Error(f1, cx.path \o ": array has more than "
                                \o PyFormat(max_items) \o " items")
                 ELSE f1
       IN IF Has(cx.schema, "items")
          THEN ItemsLoop(0, cx.schema.d["items"], f2, cx)
          ELSE f2

\* A loop over required that stops at the first missing name.
RequiredLoopFirstOnly(required, f, cx) ==
  IF \A i \in 1..Len(required) : Has(cx.instance, Join(required[i].s)) THEN f
  ELSE LET i == CHOOSE i \in 1..Len(required) :
                  /\ ~Has(cx.instance, Join(required[i].s))
                  /\ \A j \in 1..(i - 1) : Has(cx.instance, Join(required[j].s))
       IN Error(f, cx.path \o ": missing required property '"
                   \o Join(required[i].s) \o "'")

\* lines 132-135: the loop over required, names being those left.
RECURSIVE RequiredLoop(_, _, _)
RequiredLoop(required, f, cx) ==
  IF required = <<>> THEN f
  ELSE LET key == Head(required)
       IN RequiredLoop(Tail(required),
            IF ~Has(cx.instance, Join(key.s))
            THEN Error(f, cx.path \o ": missing required property '" \o Join(key.s) \o "'")
            ELSE f,
            cx)

\* A loop over the items that rejects undeclared keys unless additionalProperties
\* is true.
RECURSIVE PropertiesLoopClosed(_, _, _)
PropertiesLoopClosed(keys, f, cx) ==
  IF f.exc # NoExc \/ keys = <<>> THEN f
  ELSE LET key        == Head(keys)
           properties == Get(cx.schema, "properties", Dict(<<>>))
           f1 == IF Has(properties, key)
                 THEN Extend(f, Nested(cx.instance.d[key], properties.d[key], cx.base_dir,
                                       cx.root_schema, cx.path \o "." \o key,
                                       cx, Machine(f)))
                 ELSE IF Get(cx.schema, "additionalProperties", Null) # Bool(TRUE)
                 THEN Error(f, cx.path \o ": additional property '" \o key \o "' not allowed")
                 ELSE f
       IN PropertiesLoopClosed(Tail(keys), f1, cx)

\* lines 137-142: the loop over instance.items(), keys being those left.
PropertiesLoop(keys, f, cx) ==
  IF f.exc # NoExc \/ keys = <<>> THEN f
  ELSE LET key        == Head(keys)
           properties == Get(cx.schema, "properties", Dict(<<>>))
           f1 == IF Has(properties, key)
                 THEN Extend(f, Nested(cx.instance.d[key], properties.d[key], cx.base_dir,
                                       cx.root_schema, cx.path \o "." \o key,
                                       cx, Machine(f)))
                 ELSE IF Get(cx.schema, "additionalProperties", Null) = Bool(FALSE)
                 THEN Error(f, cx.path \o ": additional property '" \o key \o "' not allowed")
                 ELSE f
       IN PropertiesLoop(Tail(keys), f1, cx)

\* A mapping step that visits the keys of the instance before it looks at required.
DictStepKeysFirst(f, cx) ==
  IF ~Live(f) \/ ~IsDict(cx.instance) THEN f
  ELSE Bind(PropertiesLoop(cx.instance.keys, f, cx), LAMBDA f1 :
         IF f1.exc # NoExc THEN f1
         ELSE RequiredLoop(Get(cx.schema, "required", List(<<>>)).l, f1, cx))

\* A mapping step that takes every key it has visited out of the instance
\* (instance.pop(key)).
DictStepConsuming(f, cx) ==
  IF ~Live(f) \/ ~IsDict(cx.instance) THEN f
  ELSE Bind(PropertiesLoop(cx.instance.keys,
              RequiredLoop(Get(cx.schema, "required", List(<<>>)).l, f, cx), cx),
         LAMBDA f1 : IF f1.exc # NoExc THEN f1
                     ELSE [f1 EXCEPT !.args.instance = Dict(<<>>)])

\* lines 131-142
DictStep(f, cx) ==
  IF ~Live(f) \/ ~IsDict(cx.instance) THEN f
  ELSE PropertiesLoop(cx.instance.keys,
         RequiredLoop(Get(cx.schema, "required", List(<<>>)).l, f, cx), cx)

\* lines 71-144.  The result is the frame at the return (or at the raise).
validate(instance, schema, base_dir, root_schema, path, depth, fs, m) ==
  LET cx == [instance |-> instance, schema |-> schema, base_dir |-> base_dir,
             root_schema |-> root_schema, path |-> path, depth |-> depth, fs |-> fs]
      f0 == NewFrame([m EXCEPT !.trace =
                        Append(@, [schema |-> schema, base_dir |-> base_dir,
                                   root_schema |-> root_schema])],
                     [instance |-> instance, schema |-> schema,
                      root_schema |-> root_schema])
  IN IF depth > RecursionLimit THEN Raise(f0, Exc("RecursionError", <<>>))
     ELSE IF ~IsDict(schema) THEN Raise(f0, NonDictExc(schema))
     ELSE Bind(RefStep(f0, cx), LAMBDA f1 : IF f1.exc # NoExc THEN f1 ELSE
          Bind(AnyOfStep(f1, cx), LAMBDA f2 : IF f2.exc # NoExc THEN f2 ELSE
          Bind(TypeStep(f2, cx), LAMBDA f3 : IF f3.ret THEN f3 ELSE
          Bind(ListStep(NumberStep(StringStep(EnumStep(f3, cx), cx), cx), cx),
            LAMBDA f4 : IF f4.exc # NoExc THEN f4 ELSE DictStep(f4, cx)))))

(* ------------------------------------------------------------------ *)
(* validate_file                                                       *)
(* draft7 tells whether the import of jsonschema succeeded (lines      *)
(* 8-13).  The Draft-7 engine is a library outside this repository:    *)
(* its verdict is engine, an input of the call.                        *)
(* The result: kind "return" with the errors, or kind "raise" with the *)
(* exception; SCHEMA_CACHE and the ghosts as the call leaves them.     *)

Outcome(kind, errors, exc, engine, cache, parses, trace) ==
  [kind |-> kind, errors |-> errors, exc |-> exc, engine |-> engine,
   cache |-> cache, parses |-> parses, trace |-> trace]

\* lines 151-165, for the two documents loaded
ValidateLoaded(schema, data, schema_path, isDraft7, engine, fs, cache, parses) ==
  IF isDraft7
  THEN IF engine.exc # NoExc
       THEN Outcome("raise", <<>>, engine.exc, TRUE, cache, parses, <<>>)
       ELSE Outcome("return", engine.errors, NoExc, TRUE, cache, parses, <<>>)
  ELSE Bind(validate(data, schema, DirName(schema_path), schema, "$", 1, fs,
                     [cache |-> cache, parses |-> parses, trace |-> <<>>]),
         LAMBDA f :
           IF f.exc # NoExc
           THEN Outcome("raise", <<>>, f.exc, FALSE, f.cache, f.parses, f.trace)
           ELSE Outcome("return", f.errors, NoExc, FALSE, f.cache, f.parses, f.trace))

validate_file(schema_path, data_path, isDraft7, engine, fs, cache, parses) ==
  Bind(load_json(schema_path, fs, parses), LAMBDA s :
    IF s.exc # NoExc
    THEN Outcome("raise", <<>>, s.exc, FALSE, cache, s.parses, <<>>)
    ELSE Bind(load_json(data_path, fs, s.parses), LAMBDA d :
           IF d.exc # NoExc
           THEN Outcome("raise", <<>>, d.exc, FALSE, cache, d.parses, <<>>)
           ELSE ValidateLoaded(s.doc, d.doc, schema_path, isDraft7, engine, fs, cache,
                               d.parses)))

(* ------------------------------------------------------------------ *)
(* The documents of the model.                                         *)
(* Schema documents keep to the data model: every keyword has a value  *)
(* of its type ($ref a str, anyOf a list of nodes, required a list of  *)
(* str, ...); pointers may still lead to a value that is no node.      *)

A(text)      == Str(<<text>>)
TypeIs(name) == Dict(<< <<"type", A(name)>> >>)
RefTo(ref)   == Dict(<< <<"$ref", Str(ref)>> >>)

JsonFile(doc) == [kind |-> "json", doc |-> doc]
Malformed     == [kind |-> "malformed"]

\* schemas/a.json and schemas/b.json refer to each other; self.json to itself.
DocA    == RefTo(<<"b.json">>)
DocB    == RefTo(<<"a.json">>)
DocSelf == RefTo(<<"#">>)

\* schemas/main.json: refers into defs/common.json, to its own definitions and,
\* under another spelling and through its own file name, to files already met.
DocMain ==
  Dict(<<
    <<"type", A("object")>>,
    <<"required", List(<<A("name"), A("tags")>>)>>,
    <<"properties", Dict(<<
        <<"name", RefTo(<<"defs", "/", "common.json", "#", "/", "definitions", "/", "name">>)>>,
        <<"tags", Dict(<< <<"type", A("array")>>, <<"minItems", Int_(1)>>,
                          <<"items", RefTo(<<"#", "/", "definitions", "/", "tag">>)>> >>)>>,
        <<"color", RefTo(<<"defs", "/", "common.json", "#", "/", "definitions", "/", "color">>)>>,
        <<"alt", RefTo(<<".", "/", "defs", "/", "..", "/", "defs", "/", "common.json",
                         "#", "/", "definitions", "/", "text">>)>>,
        <<"own", RefTo(<<"main.json", "#", "/", "definitions", "/", "tag">>)>> >>)>>,
    <<"additionalProperties", Bool(FALSE)>>,
    <<"definitions", Dict(<<
        <<"tag", Dict(<< <<"type", A("string")>>, <<"minLength", Int_(2)>> >>)>>,
        <<"text", TypeIs("integer")>> >>)>> >>)

\* schemas/defs/common.json: its nested references are relative to itself.
DocCommon ==
  Dict(<<
    <<"definitions", Dict(<<
        <<"name", RefTo(<<"#", "/", "definitions", "/", "text">>)>>,
        <<"text", Dict(<< <<"type", A("string")>>, <<"minLength", Int_(1)>> >>)>>,
        <<"color", RefTo(<<"palette.json", "#", "/", "definitions", "/", "hex">>)>>,
        <<"a/b", TypeIs("boolean")>>,
        <<"list", List(<<TypeIs("null")>>)>> >>)>> >>)

\* schemas/defs/palette.json, and a different schemas/palette.json.
DocPalette ==
  Dict(<< <<"definitions", Dict(<<
      <<"hex", Dict(<< <<"type", A("string")>>, <<"pattern", A("^[A-Z]")>> >>)>> >>)>> >>)
DocPaletteTop ==
  Dict(<< <<"definitions", Dict(<< <<"hex", TypeIs("integer")>> >>)>> >>)

\* schemas/broken.json: each property has a reference that cannot be resolved;
\* one alternative of "late" matches before the unresolvable one is tried.
DocBroken ==
  Dict(<<
    <<"properties", Dict(<<
        <<"p", RefTo(<<"#", "/", "definitions", "/", "nope">>)>>,
        <<"q", RefTo(<<"missing.json">>)>>,
        <<"r", RefTo(<<"bad.json">>)>>,
        <<"s", RefTo(<<"defs", "/", "common.json", "#", "/", "definitions", "/", "nope">>)>>,
        <<"t", RefTo(<<"defs", "/", "common.json", "#", "/", "definitions", "/", "list",
                       "/", "0">>)>>,
        <<"u", RefTo(<<"defs", "/", "common.json", "#", "/", "definitions", "/", "a", "~", "1", "b">>)>>,
        <<"v", Dict(<< <<"anyOf", List(<<RefTo(<<"#", "/", "definitions", "/", "nope">>),
                                         TypeIs("integer")>>)>> >>)>>,
        <<"late", Dict(<< <<"anyOf", List(<<TypeIs("integer"),
                                            RefTo(<<"missing.json">>)>>)>> >>)>>,
        <<"w", Dict(<< <<"type", A("string")>>,
                       <<"items", RefTo(<<"missing.json">>)>> >>)>> >>)>>,
    <<"definitions", Dict(<<>>)>> >>)

\* schemas/tree.json: a recursive schema, each cycle passes through a descent.
DocTree ==
  Dict(<<
    <<"type", A("object")>>,
    <<"properties", Dict(<<
        <<"children", Dict(<< <<"type", A("array")>>, <<"items", RefTo(<<"#">>)>> >>)>> >>)>> >>)

\* The data documents.
DataGood ==
  Dict(<< <<"name", A("Acme")>>, <<"tags", List(<<A("ab"), A("Abc")>>)>>,
          <<"color", A("Abc")>>, <<"alt", A("ab")>>, <<"own", A("ab")>> >>)
DataPoor ==
  Dict(<< <<"tags", List(<<A("a"), Int_(1)>>)>>, <<"color", A("abc")>>,
          <<"name", Str(<<>>)>>, <<"extra", Int_(1)>>, <<"own", A("a")>> >>)
DataTree ==
  Dict(<< <<"children", List(<< Dict(<< <<"children", List(<<Int_(1)>>)>> >>),
                                Dict(<<>>) >>)>> >>)
\* Trees of one and of three levels of children.
DataFlat == Dict(<< <<"children", List(<<Int_(1)>>)>> >>)
DataDeep ==
  Dict(<< <<"children", List(<<
    Dict(<< <<"children", List(<<
      Dict(<< <<"children", List(<<Int_(1)>>)>> >>) >>)>> >>) >>)>> >>)
DataKey(key) == Dict(<< <<key, Int_(1)>> >>)

Files ==
  ("schemas/a.json" :> JsonFile(DocA)) @@
  ("schemas/b.json" :> JsonFile(DocB)) @@
  ("schemas/self.json" :> JsonFile(DocSelf)) @@
  ("schemas/main.json" :> JsonFile(DocMain)) @@
  ("schemas/defs/common.json" :> JsonFile(DocCommon)) @@
  ("schemas/defs/palette.json" :> JsonFile(DocPalette)) @@
  ("schemas/palette.json" :> JsonFile(DocPaletteTop)) @@
  ("schemas/broken.json" :> JsonFile(DocBroken)) @@
  ("schemas/bad.json" :> Malformed) @@
  ("schemas/tree.json" :> JsonFile(DocTree)) @@
  ("data/good.json" :> JsonFile(DataGood)) @@
  ("data/poor.json" :> JsonFile(DataPoor)) @@
  ("data/tree.json" :> JsonFile(DataTree)) @@
  ("data/flat.json" :> JsonFile(DataFlat)) @@
  ("data/deep.json" :> JsonFile(DataDeep)) @@
  ("data/p.json" :> JsonFile(DataKey("p"))) @@
  ("data/q.json" :> JsonFile(DataKey("q"))) @@
  ("data/r.json" :> JsonFile(DataKey("r"))) @@
  ("data/s.json" :> JsonFile(DataKey("s"))) @@
  ("data/t.json" :> JsonFile(DataKey("t"))) @@
  ("data/u.json" :> JsonFile(DataKey("u"))) @@
  ("data/v.json" :> JsonFile(DataKey("v"))) @@
  ("data/late.json" :> JsonFile(DataKey("late"))) @@
  ("data/w.json" :> JsonFile(DataKey("w"))) @@
  ("data/bad.json" :> Malformed)

\* What a file may hold after it was changed on storage during the session:
\* defs/common.json with a longer minLength for "text", or no JSON at all.
DocCommonLater ==
  Dict(<<
    <<"definitions", Dict(<<
        <<"name", RefTo(<<"#", "/", "definitions", "/", "text">>)>>,
        <<"text", Dict(<< <<"type", A("string")>>, <<"minLength", Int_(5)>> >>)>>,
        <<"color", RefTo(<<"palette.json", "#", "/", "definitions", "/", "hex">>)>>,
        <<"a/b", TypeIs("boolean")>>,
        <<"list", List(<<TypeIs("null")>>)>> >>)>> >>)
Rewrites ==
  { <<"schemas/defs/common.json", JsonFile(DocCommonLater)>>,
    <<"schemas/defs/common.json", Malformed>> }

\* The (schema, data) pairs handed to validate_file, as the entries of a
\* manifest pair them: every schema with documents for it, one schema under
\* another spelling of its path, and paths that do not exist.
S(name) == <<"schemas", "/", name>>
D(name) == <<"data", "/", name>>
Pairs ==
  { <<S("main.json"), D("good.json")>>, <<S("main.json"), D("poor.json")>>,
    <<S("main.json"), D("bad.json")>>, <<S("main.json"), D("none.json")>>,
    <<<<"schemas", "/", "defs", "/", "..", "/", "main.json">>, D("good.json")>>,
    <<<<"schemas", "/", "defs", "/", "common.json">>, D("good.json")>>,
    <<S("a.json"), D("good.json")>>, <<S("self.json"), D("poor.json")>>,
    <<S("bad.json"), D("good.json")>>, <<S("none.json"), D("good.json")>>,
    <<S("tree.json"), D("tree.json")>>, <<S("tree.json"), D("good.json")>>,
    <<S("tree.json"), D("flat.json")>>, <<S("tree.json"), D("deep.json")>> }
  \cup { <<S("broken.json"), D(n)>> :
           n \in {"p.json", "q.json", "r.json", "s.json", "t.json", "u.json", "v.json",
                  "late.json", "w.json", "good.json"} }

\* What the Draft-7 engine may answer: no violation, a violation, a failure.
\* NoAnswer also stands for the engine not being asked.
NoAnswer == [errors |-> <<>>, exc |-> NoExc]
EngineAnswers ==
  { NoAnswer,
    [errors |-> <<"$: violation">>, exc |-> NoExc],
    [errors |-> <<>>, exc |-> Exc("RefResolutionError", <<>>)] }

(* ------------------------------------------------------------------ *)
(* The session: one process that calls validate_file for one pair      *)
(* after the other, as validate-system.py does.  A call that raises    *)
(* ends the process (no caller catches).                               *)

VARIABLES
  storage,       \* the files
  draft7,        \* whether jsonschema was imported (Draft7Validator is not None)
  SCHEMA_CACHE,  \* the module's cache: file_path -> document
  parses,        \* ghost: file -> number of times load_json parsed it
  pc,            \* "idle", "returned", "aborted" ("called" in SpecValidate)
  call,          \* the arguments of the last call
  ret,           \* its outcome
  ncalls,        \* calls made so far
  run            \* the state of one run of main of validate-system.py (SpecSystem)
                 \* or of compile-system.py (SpecCompile)

vars == <<storage, draft7, SCHEMA_CACHE, parses, pc, call, ret, ncalls, run>>

\* No run of validate-system.py is under way.
NoRun == [status |-> "none"]

NoCall == [op |-> "none"]
NoRet  == [kind |-> "none"]

Init ==
  /\ storage = Files
  /\ draft7 \in BOOLEAN
  /\ SCHEMA_CACHE = <<>>
  /\ parses = <<>>
  /\ pc = "idle"
  /\ call = NoCall
  /\ ret = NoRet
  /\ ncalls = 0
  /\ run = NoRun

\* validate_file(schema_path, data_path), lines 147-165.
ValidateFile(schema_path, data_path, engine) ==
  /\ pc = "idle"
  /\ ncalls < MaxCalls
  /\ draft7 \/ engine = NoAnswer
  /\ Bind(validate_file(schema_path, data_path, draft7, engine, storage,
                        SCHEMA_CACHE, parses),
       LAMBDA o :
         /\ call' = [op |-> "validate_file", schema_path |-> schema_path,
                     data_path |-> data_path, cache |-> SCHEMA_CACHE, parses |-> parses]
         /\ ret' = [kind |-> o.kind, errors |-> o.errors, exc |-> o.exc,
                    engine |-> o.engine, trace |-> o.trace]
         /\ SCHEMA_CACHE' = o.cache
         /\ parses' = o.parses
         /\ pc' = IF o.kind = "raise" THEN "aborted" ELSE "returned")
  /\ ncalls' = ncalls + 1
  /\ UNCHANGED <<storage, draft7, run>>

\* The caller takes the returned list and goes on to its next pair.
Continue ==
  /\ pc = "returned"
  /\ pc' = "idle"
  /\ call' = NoCall
  /\ ret' = NoRet
  /\ UNCHANGED <<storage, draft7, SCHEMA_CACHE, parses, ncalls, run>>

\* Between two calls a file changes on storage (the files are not the program's).
Rewrite(id, file) ==
  /\ pc = "idle"
  /\ storage[id] # file
  /\ storage' = [storage EXCEPT ![id] = file]
  /\ UNCHANGED <<draft7, SCHEMA_CACHE, parses, pc, call, ret, ncalls, run>>

Next ==
  \/ \E pair \in Pairs, engine \in EngineAnswers : ValidateFile(pair[1], pair[2], engine)
  \/ Continue
  \/ \E rw \in Rewrites : Rewrite(rw[1], rw[2])

Spec == Init /\ [][Next]_vars

(* ------------------------------------------------------------------ *)
(* validate as a function: the inputs of a direct call.                *)
(* A schema node is put together from one entry of each menu: what     *)
(* precedes `type` in the evaluation order, a `type`, and keywords     *)
(* evaluated after it.  Each entry is the list of the node's items.    *)

PrefixMenu ==
  << <<>>,
     << <<"$ref", Str(<<"#", "/", "definitions", "/", "s">>)>>,
        <<"definitions", Dict(<< <<"s", TypeIs("string")>> >>)>> >>,
     << <<"anyOf", List(<<TypeIs("string"), TypeIs("integer")>>)>> >>,
     << <<"anyOf", List(<<
           Dict(<< <<"type", A("object")>>, <<"required", List(<<A("a")>>)>> >>),
           Dict(<< <<"minItems", Int_(1)>> >>),
           Dict(<< <<"type", A("number")>>, <<"minimum", Int_(2)>> >>) >>)>> >>,
     << <<"$ref", Str(<<"#">>)>> >>,
     << <<"anyOf", List(<<>>)>> >>,
     << <<"anyOf", List(<<TypeIs("integer"),
                          RefTo(<<"#", "/", "definitions", "/", "nope">>)>>)>> >> >>

TypeMenu ==
  << <<>>,
     << <<"type", A("string")>> >>,
     << <<"type", A("integer")>> >>,
     << <<"type", A("number")>> >>,
     << <<"type", A("object")>> >>,
     << <<"type", A("array")>> >>,
     << <<"type", A("boolean")>> >>,
     << <<"type", List(<<A("string"), A("null")>>)>> >>,
     << <<"type", List(<<A("object"), A("array")>>)>> >> >>

ItemInt == <<"items", TypeIs("integer")>>
PropsA  == <<"properties", Dict(<< <<"a", TypeIs("integer")>> >>)>>
PropsAB == <<"properties", Dict(<< <<"a", TypeIs("integer")>>,
                                   <<"b", Dict(<< <<"minLength", Int_(3)>> >>)>> >>)>>

KeywordMenu ==
  << <<>>,
     << <<"enum", List(<<Int_(1), A("ab"), Null>>)>> >>,
     << <<"minLength", Int_(1)>> >>,
     << <<"minLength", Int_(3)>>, <<"pattern", A("^[A-Z]")>> >>,
     << <<"minimum", Int_(2)>> >>,
     << <<"maximum", Int_(1)>> >>,
     << <<"minimum", Int_(3)>>, <<"maximum", Int_(0)>> >>,
     << <<"minItems", Int_(2)>> >>,
     << <<"maxItems", Int_(1)>> >>,
     << <<"minItems", Int_(3)>>, <<"maxItems", Int_(0)>>, ItemInt >>,
     << ItemInt >>,
     << <<"required", List(<<A("a"), A("b")>>)>> >>,
     << <<"required", List(<<A("c"), A("a"), A("b")>>)>>, PropsA >>,
     << PropsA >>,
     << PropsA, <<"additionalProperties", Bool(FALSE)>> >>,
     << PropsAB, <<"additionalProperties", Bool(TRUE)>> >>,
     << PropsAB, <<"additionalProperties", Dict(<<>>)>> >>,
     << <<"additionalProperties", Bool(FALSE)>> >>,
     << <<"required", List(<<A("b"), A("c")>>)>>, PropsAB,
        <<"additionalProperties", Bool(FALSE)>> >>,
     << <<"enum", List(<<A("Abc"), Bool(TRUE)>>)>>, <<"minLength", Int_(4)>>,
        <<"minimum", Int_(2)>>, <<"minItems", Int_(1)>>,
        <<"required", List(<<A("a")>>)>>, <<"additionalProperties", Bool(FALSE)>> >> >>

SchemaNode(p, ty, kw) == Dict(PrefixMenu[p] \o TypeMenu[ty] \o KeywordMenu[kw])

OtherInstances ==
  << Null, Bool(TRUE), Bool(FALSE), Float2(3), Float2(4),
     Str(<<>>), A("ab"), A("Abc"), A("abcd"),
     List(<<>>), List(<<Int_(1)>>), List(<<Int_(1), A("ab")>>),
     List(<<A("x"), Null, Int_(2)>>),
     Dict(<<>>), Dict(<< <<"a", Int_(1)>> >>),
     Dict(<< <<"b", A("ab")>>, <<"a", A("x")>> >>),
     Dict(<< <<"c", Int_(1)>>, <<"a", Int_(2)>>, <<"d", Null>> >>),
     Dict(<< <<"d", Int_(1)>>, <<"b", A("Abcd")>>, <<"e", List(<<>>)>> >>) >>

Instance(i) ==
  IF i <= MaxNum THEN Int_(i) ELSE OtherInstances[i - MaxNum]

InstanceIds == 0..(MaxNum + Len(OtherInstances))

\* The node that consists solely of {"$ref": "#"}.
RefRoot == RefTo(<<"#">>)

\* validate(instance, schema, base_dir, root_schema) with path "$": the schema
\* is a node that is its own root, or RefRoot with that node as root.
DirectCall(i, p, ty, kw, via_ref) ==
  [op |-> "validate", instance |-> Instance(i),
   schema |-> IF via_ref THEN RefRoot ELSE SchemaNode(p, ty, kw),
   base_dir |-> <<"schemas">>, root_schema |-> SchemaNode(p, ty, kw), path |-> "$",
   cache |-> <<>>, parses |-> <<>>]

InitValidate ==
  /\ storage = Files
  /\ draft7 = FALSE
  /\ SCHEMA_CACHE = <<>>
  /\ parses = <<>>
  /\ pc = "called"
  /\ \E i \in InstanceIds, p \in DOMAIN PrefixMenu, ty \in DOMAIN TypeMenu,
        kw \in DOMAIN KeywordMenu, via_ref \in BOOLEAN :
       call = DirectCall(i, p, ty, kw, via_ref)
  /\ ret = NoRet
  /\ ncalls = 0
  /\ run = NoRun

\* One validate call, lines 71-144, from its first line to its return or raise.
Validate ==
  /\ pc = "called"
  /\ Bind(validate(call.instance, call.schema, call.base_dir, call.root_schema, call.path,
                   1, storage, [cache |-> SCHEMA_CACHE, parses |-> parses, trace |-> <<>>]),
       LAMBDA f :
         /\ ret' = [kind |-> IF f.exc # NoExc THEN "raise" ELSE "return",
                    errors |-> IF f.exc # NoExc THEN <<>> ELSE f.errors,
                    exc |-> f.exc, engine |-> FALSE, trace |-> f.trace,
                    args |-> f.args]
         /\ SCHEMA_CACHE' = f.cache
         /\ parses' = f.parses
         /\ pc' = IF f.exc # NoExc THEN "aborted" ELSE "returned")
  /\ ncalls' = ncalls + 1
  /\ UNCHANGED <<storage, draft7, call, run>>

NextValidate == Validate

SpecValidate == InitValidate /\ [][NextValidate]_vars

(* ------------------------------------------------------------------ *)
(* validate-system.py: one run of main over a manifest.                *)

\* The paths of storage are relative to ROOT_DIR.
ROOT_DIR == <<>>

\* resolve_path(path), lines 18-19: os.path.join keeps an absolute path as it is.
resolve_path(path) == IF StartsWith(path, "/") THEN path ELSE ROOT_DIR \o path

\* os.path.exists
exists(path, fs) == FileId(path) \in DOMAIN fs

\* A manifest entry: entry["path"], entry.get("schema") (<<>> when there is
\* none), entry.get("validate", True), entry.get("required", False).
Entry(path, schema, validate_flag, required) ==
  [path |-> path, schema |-> schema, validate |-> validate_flag, required |-> required]

\* f"{entry['path']}: {err}" for each err of schema_errors.
Prefixed(entry, schema_errors) ==
  [i \in 1..Len(schema_errors) |-> Join(entry.path) \o ": " \o schema_errors[i]]

\* f"Missing schema: {schema_path} (for {entry['path']})"
MissingSchema(entry) ==
  "Missing schema: " \o Join(entry.schema) \o " (for " \o Join(entry.path) \o ")"

\* schema_errors = validate_file(schema_full, path) and the loop that appends
\* them to errors, lines 34-36 and 55-57.  st.calls is a ghost: the calls of
\* validate_file made so far, each with what it gave.
CallValidateFile(entry, st, engine, fs, isDraft7) ==
  Bind(validate_file(resolve_path(entry.schema), resolve_path(entry.path), isDraft7,
                     engine, fs, st.cache, st.parses),
    LAMBDA o :
      [st EXCEPT !.cache = o.cache, !.parses = o.parses, !.exc = o.exc,
                 !.calls = Append(@, [entry |-> entry, kind |-> o.kind,
                                      errors |-> o.errors]),
                 !.errors = IF o.kind = "raise" THEN @ ELSE @ \o Prefixed(entry, o.errors)])

\* validate_manifest_entry with the test of entry.get("validate", True) left out.
validate_manifest_entry_whatever_flag(entry, st, engine, fs, isDraft7) ==
  IF ~exists(resolve_path(entry.path), fs)
  THEN [st EXCEPT !.errors = Append(@, "Missing required file: " \o Join(entry.path))]
  ELSE IF entry.schema # <<>>
  THEN IF ~exists(resolve_path(entry.schema), fs)
       THEN [st EXCEPT !.errors = Append(@, MissingSchema(entry))]
       ELSE CallValidateFile(entry, st, engine, fs, isDraft7)
  ELSE st

\* validate_manifest_entry(entry, errors), lines 22-36.
validate_manifest_entry(entry, st, engine, fs, isDraft7) ==
  IF ~exists(resolve_path(entry.path), fs)
  THEN [st EXCEPT !.errors = Append(@, "Missing required file: " \o Join(entry.path))]
  ELSE IF entry.schema # <<>> /\ entry.validate
  THEN IF ~exists(resolve_path(entry.schema), fs)
       THEN [st EXCEPT !.errors = Append(@, MissingSchema(entry))]
       ELSE CallValidateFile(entry, st, engine, fs, isDraft7)
  ELSE st

\* validate_optional_entry(entry, warnings, errors, required_key), lines 39-57.
validate_optional_entry(entry, st, required_key, engine, fs, isDraft7) ==
  IF ~exists(resolve_path(entry.path), fs)
  THEN IF required_key
       THEN [st EXCEPT !.errors = Append(@, "Missing expected output: " \o Join(entry.path))]
       ELSE [st EXCEPT !.warnings = Append(@, "Missing optional file: " \o Join(entry.path))]
  ELSE IF entry.schema # <<>>
  THEN IF ~exists(resolve_path(entry.schema), fs)
       THEN [st EXCEPT !.warnings = Append(@, MissingSchema(entry))]
       ELSE CallValidateFile(entry, st, engine, fs, isDraft7)
  ELSE st

\* The three lists of the manifest, in the order main goes through them.
Lists == <<"required_files", "optional_files", "expected_outputs">>

\* Where main is after the entry at idx of the list at position l of Lists:
\* at the next entry of that list, at the first entry of the next list that
\* has one, or at the checks that follow the three loops.
RECURSIVE FirstEntry(_, _)
FirstEntry(manifest, l) ==
  IF l > Len(Lists) THEN [pc |-> "checks", idx |-> 0]
  ELSE IF manifest[Lists[l]] # <<>> THEN [pc |-> Lists[l], idx |-> 1]
  ELSE FirstEntry(manifest, l + 1)
NextEntry(manifest, l, idx) ==
  IF idx < Len(manifest[Lists[l]]) THEN [pc |-> Lists[l], idx |-> idx + 1]
  ELSE FirstEntry(manifest, l + 1)

\* The entries a manifest is written from: a valid and an invalid document, a
\* missing document, a missing schema, a schema that makes validate_file raise,
\* an entry with "validate": false, entries without "schema" (one of them not
\* JSON), and "required": true on some.
EntryMenu ==
  << Entry(D("good.json"), S("main.json"), TRUE, FALSE),
     Entry(D("poor.json"), S("main.json"), TRUE, TRUE),
     Entry(D("none.json"), S("main.json"), TRUE, FALSE),
     Entry(D("none.json"), S("main.json"), TRUE, TRUE),
     Entry(D("good.json"), S("none.json"), TRUE, FALSE),
     Entry(D("p.json"), S("broken.json"), TRUE, FALSE),
     Entry(D("poor.json"), S("main.json"), FALSE, FALSE),
     Entry(D("good.json"), <<>>, TRUE, FALSE),
     Entry(D("bad.json"), <<>>, TRUE, FALSE) >>

EntryLists(n) == UNION { [1..k -> {EntryMenu[i] : i \in DOMAIN EntryMenu}] : k \in 0..n }

Manifest(kind, required_files, optional_files, expected_outputs) ==
  [kind |-> kind, required_files |-> required_files, optional_files |-> optional_files,
   expected_outputs |-> expected_outputs]

\* registry/system-manifest.json: missing, not JSON, or a document with at
\* most MaxEntries entries in its three lists.
Manifests ==
  { Manifest("missing", <<>>, <<>>, <<>>), Manifest("malformed", <<>>, <<>>, <<>>) }
  \cup UNION { { Manifest("json", SubSeq(all, 1, c[1]), SubSeq(all, c[1] + 1, c[2]),
                            SubSeq(all, c[2] + 1, Len(all))) :
                     c \in {d \in (0..Len(all)) \X (0..Len(all)) : d[1] <= d[2]} }
               : all \in EntryLists(MaxEntries) }

\* What the checks of lines 176-189 other than load_json(output_path) come to:
\* they add errors or raise, by files and subprocesses that are not modelled.
LaterChecks ==
  { [errors |-> <<>>, raised |-> FALSE],
    [errors |-> <<"Section validation failed">>, raised |-> FALSE],
    [errors |-> <<>>, raised |-> TRUE] }

Printed(title, lines) == <<title>> \o [i \in 1..Len(lines) |-> "- " \o lines[i]]

InitSystem ==
  /\ storage = Files
  /\ draft7 \in BOOLEAN
  /\ SCHEMA_CACHE = <<>>
  /\ parses = <<>>
  /\ pc = "start"
  /\ call = NoCall
  /\ ret = NoRet
  /\ ncalls = 0
  /\ \E manifest \in Manifests :
       run = [status |-> "running", manifest |-> manifest, idx |-> 0,
             errors |-> <<>>, warnings |-> <<>>, calls |-> <<>>, out |-> <<>>,
             code |-> 0]

\* The process ends: sys.exit(code), the end of main (code 0), or an exception
\* nothing catches (a traceback, code 1).
Exit(status, code, out) ==
  /\ pc' = "exited"
  /\ run' = [run EXCEPT !.status = status, !.code = code, !.out = @ \o out]

\* main, lines 155-164: the manifest is found and loaded.
Start ==
  /\ pc = "start"
  /\ IF run.manifest.kind = "missing"
     THEN Exit("exited", 1, <<"Missing registry/system-manifest.json">>)
     ELSE IF run.manifest.kind = "malformed"
     THEN Exit("raised", 1, <<>>)
     ELSE /\ pc' = FirstEntry(run.manifest, 1).pc
          /\ run' = [run EXCEPT !.idx = FirstEntry(run.manifest, 1).idx]
  /\ UNCHANGED <<storage, draft7, SCHEMA_CACHE, parses, call, ret, ncalls>>

\* What one turn of a loop over entries leaves: st is the outcome of the
\* handler of the entry at run.idx of the list at position l.
EntryDone(l, st) ==
  /\ SCHEMA_CACHE' = st.cache
  /\ parses' = st.parses
  /\ ncalls' = Len(st.calls)
  /\ IF st.exc # NoExc
     THEN /\ pc' = "exited"
          /\ run' = [run EXCEPT !.status = "raised", !.code = 1, !.calls = st.calls]
     ELSE /\ pc' = NextEntry(run.manifest, l, run.idx).pc
          /\ run' = [run EXCEPT !.idx = NextEntry(run.manifest, l, run.idx).idx,
                                !.errors = st.errors, !.warnings = st.warnings,
                                !.calls = st.calls]
  /\ UNCHANGED <<storage, draft7, call, ret>>

State == [errors |-> run.errors, warnings |-> run.warnings, calls |-> run.calls,
          cache |-> SCHEMA_CACHE, parses |-> parses, exc |-> NoExc]

\* One turn of the loop of lines 166-167.
RequiredEntry(engine) ==
  /\ pc = "required_files"
  /\ draft7 \/ engine = NoAnswer
  /\ Bind(validate_manifest_entry(run.manifest.required_files[run.idx], State, engine,
                                  storage, draft7),
       LAMBDA st : EntryDone(1, st))

\* One turn of the loop of lines 169-170.
OptionalEntry(engine) ==
  /\ pc = "optional_files"
  /\ draft7 \/ engine = NoAnswer
  /\ Bind(validate_optional_entry(run.manifest.optional_files[run.idx], State, FALSE,
                                  engine, storage, draft7),
       LAMBDA st : EntryDone(2, st))

\* One turn of the loop of lines 172-174.
ExpectedEntry(engine) ==
  /\ pc = "expected_outputs"
  /\ draft7 \/ engine = NoAnswer
  /\ Bind(validate_optional_entry(run.manifest.expected_outputs[run.idx], State,
                                  run.manifest.expected_outputs[run.idx].required,
                                  engine, storage, draft7),
       LAMBDA st : EntryDone(3, st))

\* load_json(output_path) of line 181 raises on an expected output that exists
\* and is not JSON.
OutputUnreadable ==
  \E i \in DOMAIN run.manifest.expected_outputs :
    LET id == FileId(resolve_path(run.manifest.expected_outputs[i].path))
    IN id \in DOMAIN storage /\ storage[id].kind # "json"

\* main, lines 176-202: the later checks, the report and the exit status.
Finish(later) ==
  /\ pc = "checks"
  /\ IF later.raised \/ OutputUnreadable
     THEN Exit("raised", 1, <<>>)
     ELSE LET errors == run.errors \o later.errors
              warned == IF run.warnings # <<>> THEN Printed("Warnings:", run.warnings)
                        ELSE <<>>
          IN /\ pc' = "exited"
             /\ run' = [run EXCEPT
                  !.status = "exited",
                  !.errors = errors,
                  !.code = IF errors # <<>> THEN 1 ELSE 0,
                  !.out = IF errors # <<>>
                          THEN warned \o Printed("System validation failed:", errors)
                          ELSE warned \o <<"System validation passed.">>]
  /\ UNCHANGED <<storage, draft7, SCHEMA_CACHE, parses, call, ret, ncalls>>

NextSystem ==
  \/ Start
  \/ \E engine \in EngineAnswers : RequiredEntry(engine)
  \/ \E engine \in EngineAnswers : OptionalEntry(engine)
  \/ \E engine \in EngineAnswers : ExpectedEntry(engine)
  \/ \E later \in LaterChecks : Finish(later)

SpecSystem == InitSystem /\ [][NextSystem]_vars

(* ------------------------------------------------------------------ *)
(* resolve_pointer and resolve_ref as functions: the inputs of a       *)
(* direct call.  Pointers are spelled character by character.          *)

PointerChars == {"#", "/", "~", "0", "1"}
Pointers == UNION { [1..n -> PointerChars] : n \in 0..MaxPointerLen }

\* A document with the keys a pointer of these characters can name: the empty
\* key, keys with "/" and "~" in them, a dict and a list below.
PointerDoc ==
  Dict(<< <<"", Int_(1)>>, <<"0", Dict(<< <<"0", Int_(2)>>, <<"1", A("x")>>,
                                          <<"", Int_(3)>>, <<"~", Null>>,
                                          <<"/", Bool(TRUE)>> >>)>>,
          <<"1", List(<<Int_(4)>>)>>, <<"~", Int_(5)>>, <<"/", Int_(6)>>,
          <<"~1", Int_(7)>>, <<"~0", Int_(8)>>, <<"#", Int_(9)>>,
          <<"01", Int_(10)>>, <<"~/", Int_(11)>>, <<"/~", Int_(12)>>,
          <<"~01", Int_(13)>> >>)

RootDocs == {PointerDoc, Dict(<<>>), List(<<Int_(1)>>)}

\* References to files, next to the pointers into the root.
FileRefs ==
  { <<"defs", "/", "common.json", "#", "/", "definitions", "/", "text">>,
    <<"palette.json">>, <<"missing.json">>, <<"bad.json">> }

\* SCHEMA_CACHE at the call: empty, or with a file loaded by an earlier call.
CachesBefore ==
  { <<>>, (<<"schemas", "/", "palette.json">> :> DocPaletteTop) }

InitResolve ==
  /\ storage = Files
  /\ draft7 = FALSE
  /\ SCHEMA_CACHE \in CachesBefore
  /\ parses = <<>>
  /\ pc = "called"
  /\ \/ \E schema \in RootDocs, pointer \in Pointers :
          /\ SCHEMA_CACHE = <<>>
          /\ call = [op |-> "resolve_pointer", schema |-> schema, pointer |-> pointer]
     \/ \E root_schema \in RootDocs,
           ref \in {pointer \in Pointers : StartsWith(pointer, "#")} \cup FileRefs :
          call = [op |-> "resolve_ref", ref |-> ref, base_dir |-> <<"schemas">>,
                  root_schema |-> root_schema, cache |-> SCHEMA_CACHE]
  /\ ret = NoRet
  /\ ncalls = 0
  /\ run = NoRun

\* One call of resolve_pointer, lines 23-37.
ResolvePointer ==
  /\ pc = "called"
  /\ call.op = "resolve_pointer"
  /\ Bind(resolve_pointer(call.schema, call.pointer), LAMBDA t :
       /\ ret' = [kind |-> IF t.exc # NoExc THEN "raise" ELSE "return",
                  exc |-> t.exc, node |-> t.node]
       /\ pc' = IF t.exc # NoExc THEN "aborted" ELSE "returned")
  /\ ncalls' = ncalls + 1
  /\ UNCHANGED <<storage, draft7, SCHEMA_CACHE, parses, call, run>>

\* One call of resolve_ref, lines 40-50.
ResolveRef ==
  /\ pc = "called"
  /\ call.op = "resolve_ref"
  /\ Bind(resolve_ref(call.ref, call.base_dir, call.root_schema, storage,
                      SCHEMA_CACHE, parses),
       LAMBDA r :
         /\ ret' = [kind |-> IF r.exc # NoExc THEN "raise" ELSE "return",
                    exc |-> r.exc, node |-> r.target, base |-> r.base, root |-> r.root]
         /\ SCHEMA_CACHE' = r.cache
         /\ parses' = r.parses
         /\ pc' = IF r.exc # NoExc THEN "aborted" ELSE "returned")
  /\ ncalls' = ncalls + 1
  /\ UNCHANGED <<storage, draft7, call, run>>

NextResolve ==
  \/ ResolvePointer
  \/ ResolveRef

SpecResolve == InitResolve /\ [][NextResolve]_vars

(* ------------------------------------------------------------------ *)
(* compile-system.py: one run of main.  The scripts it starts are      *)
(* processes of their own: what is modelled of each is its exit code.  *)

\* The scripts of lines 78-80 and of lines 116-118, in the order of the calls.
ScriptsBefore == <<"bin/sync-defs.py", "bin/generate-sections.py", "bin/generate-outputs.py">>
ScriptsAfter  == <<"bin/validate-system.py", "bin/validate-consistency.py", "bin/audit-system.py">>

ExitCodes == {0, 1, 2}

\* run_script(script_path), lines 55-56, with check=False: the exit code of the
\* script is not looked at.
run_script_unchecked(code) == NoExc

\* run_script(script_path), lines 55-56: subprocess.run(..., check=True) raises
\* CalledProcessError when the script exits with a code other than 0.
run_script(code) == IF code # 0 THEN Exc("CalledProcessError", <<>>) ELSE NoExc

\* What main finds at the path of an expected output, lines 88-96: no file, a
\* file that is no JSON, a document with no key besides "metadata", or a
\* document with a layer object.
OutputStates == {"missing", "malformed", "empty", "layer"}

\* lines 89-96: the exception of the turn of the loop on such an output.
StampExc(found) ==
  IF found = "missing" THEN Exc("FileNotFoundError", <<>>)
  ELSE IF found = "malformed" THEN Exc("JSONDecodeError", <<>>)
  ELSE IF found = "empty" THEN Exc("ValueError", <<>>)
  ELSE NoExc

OutputPaths == {"outputs/brand.json", "outputs/voice.json", "outputs/offer.json"}
ExpectedOutputs == UNION { [1..n -> OutputPaths] : n \in 0..MaxOutputs }

\* generated_at, lines 73-75: the argument, the value found in an existing
\* output, or the time of the run.
generated_at(arg, existing) ==
  IF arg # "" THEN arg ELSE IF existing # "" THEN existing ELSE "now"

\* An event of the log (a ghost): a script that was started with its exit
\* code, or an expected output that was met with the exception it gave rise to.
Started(script, code) == [step |-> script, code |-> code, exc |-> run_script(code)]
Met(path, exc)        == [step |-> "metadata", path |-> path, code |-> 0, exc |-> exc]

InitCompile ==
  /\ storage = Files
  /\ draft7 = FALSE
  /\ SCHEMA_CACHE = <<>>
  /\ parses = <<>>
  /\ pc = "start"
  /\ call = NoCall
  /\ ret = NoRet
  /\ ncalls = 0
  /\ \E expected_outputs \in ExpectedOutputs, arg \in {"", "2024-01-01"},
        existing \in {"", "2023-06-30"} :
       run = [status |-> "running", expected_outputs |-> expected_outputs,
              generated_at |-> generated_at(arg, existing), idx |-> 0,
              log |-> <<>>, stamped |-> <<>>, out |-> <<>>, code |-> 0]

\* An exception nothing catches ends the process with a traceback and code 1.
Abort(log) ==
  /\ pc' = "exited"
  /\ run' = [run EXCEPT !.status = "raised", !.code = 1, !.log = log]

\* main, lines 60-75: the arguments, compiler-spec.json and the manifest are
\* read; either load_json may raise.
Prelude(loaded) ==
  /\ pc = "start"
  /\ IF loaded THEN pc' = "before" /\ run' = [run EXCEPT !.idx = 1]
     ELSE Abort(run.log)
  /\ UNCHANGED <<storage, draft7, SCHEMA_CACHE, parses, call, ret, ncalls>>

\* One of the calls of run_script of lines 78-80; after the last, the hashes
\* of lines 83-84 (hashed is whether brand-seed.json could be read).
ScriptBefore(code, hashed) ==
  /\ pc = "before"
  /\ LET log == Append(run.log, Started(ScriptsBefore[run.idx], code))
     IN IF run_script(code) # NoExc THEN Abort(log)
        ELSE IF run.idx < Len(ScriptsBefore)
        THEN pc' = "before" /\ run' = [run EXCEPT !.idx = @ + 1, !.log = log]
        ELSE IF ~hashed THEN Abort(log)
        ELSE /\ pc' = IF run.expected_outputs # <<>> THEN "metadata" ELSE "after"
             /\ run' = [run EXCEPT !.idx = 1, !.log = log]
  /\ UNCHANGED <<storage, draft7, SCHEMA_CACHE, parses, call, ret, ncalls>>

\* One turn of the loop of lines 87-113 over the expected outputs.
StampOutput(found) ==
  /\ pc = "metadata"
  /\ LET path == run.expected_outputs[run.idx]
         log  == Append(run.log, Met(path, StampExc(found)))
     IN IF StampExc(found) # NoExc THEN Abort(log)
        ELSE /\ pc' = IF run.idx < Len(run.expected_outputs) THEN "metadata" ELSE "after"
             /\ run' = [run EXCEPT
                  !.idx = IF run.idx < Len(run.expected_outputs) THEN @ + 1 ELSE 1,
                  !.log = log,
                  !.stamped = Append(@, [path |-> path,
                                         generated_at |-> run.generated_at])]
  /\ UNCHANGED <<storage, draft7, SCHEMA_CACHE, parses, call, ret, ncalls>>

\* One of the calls of run_script of lines 116-118; after the last, line 120.
ScriptAfter(code) ==
  /\ pc = "after"
  /\ LET log == Append(run.log, Started(ScriptsAfter[run.idx], code))
     IN IF run_script(code) # NoExc THEN Abort(log)
        ELSE IF run.idx < Len(ScriptsAfter)
        THEN pc' = "after" /\ run' = [run EXCEPT !.idx = @ + 1, !.log = log]
        ELSE /\ pc' = "exited"
             /\ run' = [run EXCEPT !.status = "exited", !.code = 0, !.log = log,
                                   !.out = Append(@, "Compilation complete.")]
  /\ UNCHANGED <<storage, draft7, SCHEMA_CACHE, parses, call, ret, ncalls>>

NextCompile ==
  \/ \E loaded \in BOOLEAN : Prelude(loaded)
  \/ \E code \in ExitCodes, hashed \in BOOLEAN : ScriptBefore(code, hashed)
  \/ \E found \in OutputStates : StampOutput(found)
  \/ \E code \in ExitCodes : ScriptAfter(code)

SpecCompile == InitCompile /\ [][NextCompile]_vars

(* ------------------------------------------------------------------ *)
(* Properties of the session (Spec).                                   *)

FileCallDone == call.op = "validate_file" /\ pc \in {"returned", "aborted"}
Fallback     == FileCallDone /\ ~ret.engine

\* The trace of a call lists the validate calls in the order they were entered:
\* when entry k has "$ref" and is not the last, entry k + 1 is the call on the
\* target.  A chain of $ref returns to a pair already visited when two entries
\* with the same node, base directory and root document are joined by $ref only.
RefHop(trace, k) == IsDict(trace[k].schema) /\ Has(trace[k].schema, "$ref")
RefChainRepeats(trace) ==
  \E i \in 1..Len(trace) : \E j \in (i + 1)..Len(trace) :
     /\ trace[i] = trace[j]
     /\ \A k \in i..(j - 1) : RefHop(trace, k)

\* C1 (as claimed): a validate_file call whose chain of $ref returns to a
\* (file, pointer) pair already visited ends with exactly one fatal
\* "cyclic reference" error.
C1_CycleReported ==
  (Fallback /\ RefChainRepeats(ret.trace))
    => (ret.kind = "raise" /\ ret.exc.type = "CyclicReferenceError")

\* v is root or a value nested in it.
RECURSIVE IsSubnode(_, _)
IsSubnode(v, root) ==
  \/ v = root
  \/ IsDict(root) /\ \E key \in DOMAIN root.d : IsSubnode(v, root.d[key])
  \/ IsList(root) /\ \E i \in 1..Len(root.l) : IsSubnode(v, root.l[i])

\* The entry's root is the document of a file and its base directory that
\* file's directory: the schema file of the call, or a file of the cache.
ContextOfOneFile(e) ==
  \/ /\ e.root_schema = storage[FileId(call.schema_path)].doc
     /\ e.base_dir = DirName(call.schema_path)
  \/ \E file_path \in DOMAIN SCHEMA_CACHE :
       /\ e.root_schema = SCHEMA_CACHE[file_path]
       /\ e.base_dir = DirName(file_path)

\* C3: in every validate call made for a validate_file call, the schema node
\* lies in root_schema, and base_dir and root_schema are those of one file.
C3_ContextBelongsToFile ==
  Fallback =>
    \A k \in 1..Len(ret.trace) :
       /\ IsSubnode(ret.trace[k].schema, ret.trace[k].root_schema)
       /\ ContextOfOneFile(ret.trace[k])

\* A call that went from main.json into defs/common.json, followed the reference
\* of "color" there to palette.json beside it, and validated against its "hex".
C3_Witness ==
  /\ Fallback
  /\ call.schema_path = S("main.json")
  /\ \E k \in 1..Len(ret.trace) :
       /\ ret.trace[k].base_dir = <<"schemas", "/", "defs">>
       /\ ret.trace[k].root_schema = DocPalette
       /\ ret.trace[k].schema = DocPalette.d["definitions"].d["hex"]
  /\ \E k \in 1..Len(ret.trace) :
       /\ ret.trace[k].root_schema = DocCommon
       /\ ret.trace[k].schema = DocCommon.d["definitions"].d["text"]

\* The file can be opened and holds JSON.
CanLoad(path) ==
  FileId(path) \in DOMAIN storage /\ storage[FileId(path)].kind = "json"

\* What resolving the "$ref" of the trace entry e gives once the call is over.
Resolution(e) ==
  resolve_ref(e.schema.d["$ref"].s, e.base_dir, e.root_schema, storage,
              SCHEMA_CACHE, parses)
Unresolvable(e) == RefHop(<<e>>, 1) /\ Resolution(e).exc # NoExc

\* C4: a validate_file call returns a list or aborts with an exception and no
\* list; it aborts when the schema or the data cannot be loaded, and when a node
\* the validator entered has a "$ref" that cannot be resolved.
C4_FailuresAbort ==
  FileCallDone =>
    /\ ret.kind \in {"return", "raise"}
    /\ (ret.kind = "raise") = (ret.exc # NoExc)
    /\ (ret.kind = "raise") = (pc = "aborted")
    /\ ret.kind = "raise" => ret.errors = <<>>
    /\ (~CanLoad(call.schema_path) \/ ~CanLoad(call.data_path)) => ret.kind = "raise"
    /\ \A k \in 1..Len(ret.trace) : Unresolvable(ret.trace[k]) => ret.kind = "raise"

\* The call on broken.json for a document with "v": the unresolvable reference
\* is the first alternative of an anyOf whose second alternative would match.
C4_Witness ==
  /\ Fallback
  /\ call.schema_path = S("broken.json")
  /\ call.data_path = D("v.json")
  /\ ret.kind = "raise"
  /\ Unresolvable(ret.trace[Len(ret.trace)])

\* The pointer that resolve_ref hands to resolve_pointer for ref.
PointerOf(ref) ==
  IF StartsWith(ref, "#") THEN ref
  ELSE IF Partition(ref).pointer # <<>> THEN <<"#">> \o Partition(ref).pointer
  ELSE <<"#">>

\* The segments of a pointer, unescaped.
Segments(pointer) ==
  LET p1    == IF StartsWith(pointer, "#") THEN Tail(pointer) ELSE pointer
      p2    == IF StartsWith(p1, "/") THEN Tail(p1) ELSE p1
      parts == Split(p2, "/")
  IN { Join(Unescape(parts[i])) : i \in 1..Len(parts) }

\* The call ended in resolve_pointer: the file of the last node's "$ref" is
\* there, and the pointer leads nowhere in it.
PointerFailed ==
  /\ Fallback /\ ret.kind = "raise" /\ ret.trace # <<>>
  /\ Unresolvable(ret.trace[Len(ret.trace)])
  /\ Resolution(ret.trace[Len(ret.trace)]).exc.type
       \notin {"FileNotFoundError", "JSONDecodeError"}

\* C5 (as claimed): when resolve_pointer meets a segment that is no key of the
\* node reached so far, the error raised names that segment and the full
\* pointer.
C5_NamesSegmentAndPointer ==
  PointerFailed =>
    LET pointer == PointerOf(ret.trace[Len(ret.trace)].schema.d["$ref"].s)
        args    == ret.exc.args
    IN /\ \E i \in 1..Len(args) : args[i] \in Segments(pointer)
       /\ \E i \in 1..Len(args) : args[i] = Join(pointer)

\* The schema files the session has read: those handed to validate_file and
\* those in the cache.
SchemaFileIds ==
  {FileId(pair[1]) : pair \in Pairs} \cup {FileId(file_path) : file_path \in DOMAIN SCHEMA_CACHE}

\* C10 (as claimed): in one session each schema file is parsed at most once,
\* however many references and calls reach it.
C10_ParsedAtMostOnce ==
  \A id \in DOMAIN parses : id \in SchemaFileIds => parses[id] <= 1

(* ------------------------------------------------------------------ *)
(* Properties of one validate call (SpecValidate).                     *)

DirectDone     == call.op = "validate" /\ pc \in {"returned", "aborted"}
DirectReturned == call.op = "validate" /\ pc = "returned"

\* The call of the state made again, from the same process state, on schema.
Run(schema) ==
  validate(call.instance, schema, call.base_dir, call.root_schema, call.path, 1,
           storage, [cache |-> call.cache, parses |-> call.parses, trace |-> <<>>])

\* The node without the keywords in names.
Without(node, names) ==
  [k    |-> "dict",
   keys |-> SelectSeq(node.keys, LAMBDA key : key \notin names),
   d    |-> [key \in (DOMAIN node.d) \ names |-> node.d[key]]]

Count(seq, x) == Cardinality({i \in 1..Len(seq) : seq[i] = x})

\* C2: validating against {"$ref": "#"} with a document as root gives what
\* validating against the document itself gives: the same list of errors, or
\* the same exception.
C2_RefToRootIsRoot ==
  (DirectDone /\ call.schema = RefRoot) =>
    LET direct == Run(call.root_schema)
    IN IF direct.exc # NoExc
       THEN ret.kind = "raise" /\ ret.exc = direct.exc
       ELSE ret.kind = "return" /\ ret.errors = direct.errors

\* A call through {"$ref": "#"} on a root with anyOf, a type and further
\* keywords that returned two errors or more.
C2_Witness ==
  /\ DirectReturned
  /\ call.schema = RefRoot
  /\ Has(call.root_schema, "anyOf") /\ Has(call.root_schema, "type")
  /\ Len(ret.errors) >= 2

\* The node declares a type and the instance matches none of its names.
TypeMismatch ==
  /\ Has(call.schema, "type")
  /\ ~IsNone(call.schema.d["type"])
  /\ IF IsList(call.schema.d["type"])
     THEN \A i \in 1..Len(call.schema.d["type"].l) :
             ~type_matches(call.instance, call.schema.d["type"].l[i])
     ELSE ~type_matches(call.instance, call.schema.d["type"])

\* The keywords validate looks at before type.
EarlierKeywords == {"$ref", "anyOf", "definitions"}

\* The errors of the keywords before type, and those the node's later keywords
\* added to them.
EarlierErrors ==
  Run(Without(call.schema, (DOMAIN call.schema.d) \ EarlierKeywords)).errors
OwnErrors == SubSeq(ret.errors, Len(EarlierErrors) + 1, Len(ret.errors))

\* C6: when the node declares a type and the instance matches none of its
\* names, the list returned is what the keywords before type give, followed by
\* one type error at the path: no later keyword adds an error.
C6_TypeMismatchStops ==
  (DirectReturned /\ TypeMismatch) =>
    ret.errors =
      EarlierErrors \o <<call.path \o ": expected type " \o PyFormat(call.schema.d["type"])>>

\* A number below the minimum of a node whose type it does not match: only the
\* type error is returned.
C6_Witness ==
  /\ DirectReturned /\ TypeMismatch
  /\ IsNumber(call.instance) /\ Has(call.schema, "minimum")
  /\ Twice(call.instance) < Twice(call.schema.d["minimum"])
  /\ Len(ret.errors) = 1

\* The result of option k of the node's anyOf for the instance of the call.
Option(k) ==
  validate(call.instance, call.schema.d["anyOf"].l[k], call.base_dir, call.root_schema,
           call.path, 2, storage,
           [cache |-> call.cache, parses |-> call.parses, trace |-> <<>>])
SomeOptionMatches ==
  \E k \in 1..Len(call.schema.d["anyOf"].l) :
     Option(k).exc = NoExc /\ Option(k).errors = <<>>
NoOptionError == call.path \o ": does not match anyOf options"

MissingError(name) == call.path \o ": missing required property '" \o name \o "'"
RequiredNames == call.schema.d["required"].l
ExpectedMissing ==
  LET absent == SelectSeq(RequiredNames, LAMBDA key : ~Has(call.instance, Join(key.s)))
  IN [i \in 1..Len(absent) |-> MissingError(Join(absent[i].s))]
ReportedMissing ==
  SelectSeq(OwnErrors,
            LAMBDA e : \E i \in 1..Len(RequiredNames) :
                          e = MissingError(Join(RequiredNames[i].s)))

\* C8 (as claimed): for a mapping instance and a node with required, the
\* "missing required property" errors are one for each name of the list that
\* the instance lacks, in the order of the list.
C8_OnePerAbsentName ==
  (DirectReturned /\ IsDict(call.instance) /\ Has(call.schema, "required")) =>
    ReportedMissing = ExpectedMissing

\* C8 (amended): the same, for a node whose type, if it declares one, the
\* instance matches.
C8_OnePerAbsentNameTyped ==
  (DirectReturned /\ IsDict(call.instance) /\ Has(call.schema, "required")
     /\ ~TypeMismatch) =>
    ReportedMissing = ExpectedMissing

\* An instance that has the second of three required names and lacks the first
\* and the third.
C8_Witness ==
  /\ DirectReturned /\ IsDict(call.instance) /\ Has(call.schema, "required")
  /\ ~TypeMismatch
  /\ Len(RequiredNames) = 3
  /\ Has(call.instance, Join(RequiredNames[2].s))
  /\ Len(ExpectedMissing) = 2
  /\ Len(ret.errors) >= 2

AdditionalError(key) == call.path \o ": additional property '" \o key \o "' not allowed"
Declared(key) == Has(Get(call.schema, "properties", Dict(<<>>)), key)
Closed == Get(call.schema, "additionalProperties", Null) = Bool(FALSE)
KeysAsClaimed ==
  \A key \in DOMAIN call.instance.d :
     Count(OwnErrors, AdditionalError(key))
       = IF ~Declared(key) /\ Closed THEN 1 ELSE 0

\* C9 (as claimed): for a mapping instance, a key that properties does not
\* declare gives exactly one "additional property" error when
\* additionalProperties is false and none when it is absent or anything else;
\* a declared key gives none.
C9_AdditionalProperties ==
  (DirectReturned /\ IsDict(call.instance)) => KeysAsClaimed

\* C9 (amended): the same, for a node whose type, if it declares one, the
\* instance matches.
C9_AdditionalPropertiesTyped ==
  (DirectReturned /\ IsDict(call.instance) /\ ~TypeMismatch) => KeysAsClaimed

\* A closed node and an instance with one declared key and two undeclared ones.
C9_Witness ==
  /\ DirectReturned /\ IsDict(call.instance) /\ ~TypeMismatch
  /\ Closed
  /\ \E key \in DOMAIN call.instance.d : Declared(key)
  /\ Cardinality({key \in DOMAIN call.instance.d : ~Declared(key)}) = 2
  /\ Len(ret.errors) >= 2

(* ------------------------------------------------------------------ *)
(* The cache over the session (Spec).                                  *)

\* The file a "$ref" of trace entry e names, for a reference to a file.
FileRef(e) == RefHop(<<e>>, 1) /\ ~StartsWith(e.schema.d["$ref"].s, "#")
FilePathOf(e) ==
  NormPath(PathJoin(e.base_dir, Partition(e.schema.d["$ref"].s).file_part))

\* C11: an entry of the cache is never removed or replaced, and every
\* reference a call resolves to a path that was in the cache sees the document
\* as it was first loaded, whatever the file holds by then.
C11_CacheEntriesStay ==
  [][ /\ \A fp \in DOMAIN SCHEMA_CACHE :
           fp \in DOMAIN SCHEMA_CACHE' /\ SCHEMA_CACHE'[fp] = SCHEMA_CACHE[fp]
      /\ (pc = "idle" /\ pc' # "idle") =>
           \A k \in 1..(Len(ret'.trace) - 1) :
              (FileRef(ret'.trace[k]) /\ FilePathOf(ret'.trace[k]) \in DOMAIN SCHEMA_CACHE)
                => ret'.trace[k + 1].root_schema
                     = SCHEMA_CACHE[FilePathOf(ret'.trace[k])] ]_vars

\* A call that resolved a reference to defs/common.json from the cache after
\* the file had changed on storage.
C11_Witness ==
  /\ Fallback
  /\ <<"schemas", "/", "defs", "/", "common.json">> \in DOMAIN call.cache
  /\ storage["schemas/defs/common.json"] # JsonFile(DocCommon)
  /\ SCHEMA_CACHE[<<"schemas", "/", "defs", "/", "common.json">>] = DocCommon
  /\ \E k \in 1..Len(ret.trace) : ret.trace[k].root_schema = DocCommon

\* C12 (as claimed): the outcome of a validate_file call is the outcome the
\* same call has in a process that made no call before it, on the storage as
\* it is at the call.
C12_NoCrossCallState ==
  Fallback =>
    LET fresh == validate_file(call.schema_path, call.data_path, FALSE, NoAnswer,
                               storage, <<>>, <<>>)
    IN /\ ret.kind = fresh.kind
       /\ ret.errors = fresh.errors
       /\ ret.exc = fresh.exc

(* ------------------------------------------------------------------ *)
(* The order of the errors of one validate call (SpecValidate).        *)

RECURSIVE Flatten(_)
Flatten(seqs) == IF seqs = <<>> THEN <<>> ELSE Head(seqs) \o Flatten(Tail(seqs))

\* The errors of the call made again on the node cut down to the keywords names.
Group(names) == Run(Without(call.schema, (DOMAIN call.schema.d) \ names)).errors

\* A nested call on value against node at the path extended by suffix.
Sub(value, node, suffix) ==
  validate(value, node, call.base_dir, call.root_schema, call.path \o suffix, 2,
           storage, [cache |-> call.cache, parses |-> call.parses, trace |-> <<>>]).errors

\* The errors of the elements, by ascending index.
ElementErrors ==
  IF IsList(call.instance) /\ Has(call.schema, "items")
  THEN Flatten([i \in 1..Len(call.instance.l) |->
                  Sub(call.instance.l[i], call.schema.d["items"],
                      "[" \o ToString(i - 1) \o "]")])
  ELSE <<>>

\* The errors for the names of required, in the order of the list.
RequiredErrors ==
  IF IsDict(call.instance) /\ Has(call.schema, "required") THEN ExpectedMissing ELSE <<>>

\* The errors of the keys of the instance, in insertion order.
KeyErrors ==
  IF IsDict(call.instance)
  THEN Flatten([i \in 1..Len(call.instance.keys) |->
                  LET key == call.instance.keys[i]
                  IN IF Declared(key)
                     THEN Sub(call.instance.d[key], call.schema.d["properties"].d[key],
                              "." \o key)
                     ELSE IF Closed THEN <<AdditionalError(key)>> ELSE <<>>])
  ELSE <<>>

\* C13: the list returned is the errors of $ref, of anyOf, of type (after which
\* nothing follows), of enum, minLength, pattern, minimum, maximum, minItems,
\* maxItems, of the elements by ascending index, of required in list order and
\* of the instance's keys in insertion order, one after the other, with nothing
\* left out or merged; the errors of an element or key are those of its own
\* nested call, in one piece.
C13_ErrorOrder ==
  DirectReturned =>
    ret.errors =
      Group({"$ref"}) \o Group({"anyOf"})
        \o (IF TypeMismatch
            THEN <<call.path \o ": expected type " \o PyFormat(call.schema.d["type"])>>
            ELSE Group({"enum"}) \o Group({"minLength"}) \o Group({"pattern"})
                   \o Group({"minimum"}) \o Group({"maximum"})
                   \o Group({"minItems"}) \o Group({"maxItems"}) \o ElementErrors
                   \o RequiredErrors \o KeyErrors)

\* A mapping that fails anyOf, lacks a required name and has two keys whose
\* values fail their own nodes: four errors or more from three groups.
C13_Witness ==
  /\ DirectReturned /\ ~TypeMismatch /\ IsDict(call.instance)
  /\ Len(ret.errors) >= 4
  /\ ret.errors[1] = NoOptionError
  /\ Len(RequiredErrors) >= 1
  /\ Len(KeyErrors) >= 2
  /\ \E key \in DOMAIN call.instance.d : Declared(key)

(* ------------------------------------------------------------------ *)
(* The form of the errors of a validate_file call (Spec).              *)

\* The values of a document with their locators: "$" for the document, ".name"
\* added for the value of a key and "[index]" for an element.
RECURSIVE Located(_, _)
Located(value, locator) ==
  {<<locator, value>>}
    \cup (IF IsDict(value)
          THEN UNION {Located(value.d[key], locator \o "." \o key) : key \in DOMAIN value.d}
          ELSE {})
    \cup (IF IsList(value)
          THEN UNION {Located(value.l[i], locator \o "[" \o ToString(i - 1) \o "]") :
                        i \in 1..Len(value.l)}
          ELSE {})

\* The messages the keywords of node have for a value.
MessagesOf(node, value) ==
  {"does not match anyOf options"}
    \cup {"expected type " \o PyFormat(node.d[kw]) : kw \in {"type"} \cap DOMAIN node.d}
    \cup {"value " \o PyRepr(value) \o " not in enum" : kw \in {"enum"} \cap DOMAIN node.d}
    \cup {"string length < " \o PyFormat(node.d[kw]) : kw \in {"minLength"} \cap DOMAIN node.d}
    \cup {"string does not match pattern " \o PyRepr(node.d[kw]) :
            kw \in {"pattern"} \cap DOMAIN node.d}
    \cup (IF IsNumber(value)
          THEN {"value " \o PyNum(value) \o " < minimum " \o PyFormat(node.d[kw]) :
                  kw \in {"minimum"} \cap DOMAIN node.d}
               \cup {"value " \o PyNum(value) \o " > maximum " \o PyFormat(node.d[kw]) :
                       kw \in {"maximum"} \cap DOMAIN node.d}
          ELSE {})
    \cup {"array has fewer than " \o PyFormat(node.d[kw]) \o " items" :
            kw \in {"minItems"} \cap DOMAIN node.d}
    \cup {"array has more than " \o PyFormat(node.d[kw]) \o " items" :
            kw \in {"maxItems"} \cap DOMAIN node.d}
    \cup (IF Has(node, "required")
          THEN {"missing required property '" \o Join(node.d["required"].l[i].s) \o "'" :
                  i \in 1..Len(node.d["required"].l)}
          ELSE {})
    \cup (IF IsDict(value)
          THEN {"additional property '" \o key \o "' not allowed" : key \in DOMAIN value.d}
          ELSE {})

\* The error is the locator of a value of the data document, ": ", and a
\* message that a node the validator entered has for that value.
WellLocated(error) ==
  \E lv \in Located(storage[FileId(call.data_path)].doc, "$") :
    \E k \in 1..Len(ret.trace) :
      /\ IsDict(ret.trace[k].schema)
      /\ \E message \in MessagesOf(ret.trace[k].schema, lv[2]) :
           error = lv[1] \o ": " \o message

\* C14: every error the fallback validator returns through validate_file is
\* "<locator>: <message>", the locator being "$" followed by ".name" for each
\* key and "[index]" for each element passed in the instance on the way to the
\* value checked; steps in the schema ($ref, anyOf alternatives) add nothing.
C14_ErrorsAreLocated ==
  (Fallback /\ ret.kind = "return") =>
    \A i \in 1..Len(ret.errors) : WellLocated(ret.errors[i])

\* main.json against poor.json: the second element of "tags" fails the node
\* that "items" refers to, two descents in the instance and one $ref away.
C14_Witness ==
  /\ Fallback /\ ret.kind = "return"
  /\ call.schema_path = S("main.json") /\ call.data_path = D("poor.json")
  /\ \E i \in 1..Len(ret.errors) : ret.errors[i] = "$.tags[1]: expected type string"
  /\ \E i \in 1..Len(ret.errors) : ret.errors[i] = "$.name: string length < 1"

(* ------------------------------------------------------------------ *)
(* What a validate call leaves of its arguments (SpecValidate).        *)

D7Equal(a, b) ==
  IF IsNumber(a) /\ IsNumber(b) THEN Twice(a) = Twice(b) ELSE a = b

\* A number with a zero fractional part is an integer.
D7Type(value, name) ==
  CASE name = "object"  -> IsDict(value)
    [] name = "array"   -> IsList(value)
    [] name = "string"  -> IsStr(value)
    [] name = "number"  -> IsNumber(value)
    [] name = "integer" -> IsNumber(value) /\ Twice(value) % 2 = 0
    [] name = "boolean" -> IsBool(value)
    [] name = "null"    -> IsNone(value)
    [] OTHER            -> FALSE

RECURSIVE D7Accepts(_, _, _, _)
D7Accepts(value, node, root, depth) ==
  IF depth > RecursionLimit THEN FALSE
  ELSE IF IsBool(node) THEN node.b
  ELSE IF ~IsDict(node) THEN TRUE
  ELSE IF Has(node, "$ref")
  \* the other keywords of a node with "$ref" are ignored
  THEN LET t == resolve_pointer(root, node.d["$ref"].s)
       IN t.exc = NoExc /\ D7Accepts(value, t.node, root, depth + 1)
  ELSE
    /\ Has(node, "anyOf") =>
         \E i \in 1..Len(node.d["anyOf"].l) :
            D7Accepts(value, node.d["anyOf"].l[i], root, depth + 1)
    /\ Has(node, "type") =>
         IF IsList(node.d["type"])
         THEN \E i \in 1..Len(node.d["type"].l) :
                 D7Type(value, Join(node.d["type"].l[i].s))
         ELSE D7Type(value, Join(node.d["type"].s))
    /\ Has(node, "enum") =>
         \E i \in 1..Len(node.d["enum"].l) : D7Equal(value, node.d["enum"].l[i])
    /\ (IsStr(value) /\ Has(node, "minLength")) =>
         2 * PyLen(value.s) >= Twice(node.d["minLength"])
    /\ (IsStr(value) /\ Has(node, "pattern")) => ReSearch(node.d["pattern"].s, value.s)
    /\ (IsNumber(value) /\ Has(node, "minimum")) => Twice(value) >= Twice(node.d["minimum"])
    /\ (IsNumber(value) /\ Has(node, "maximum")) => Twice(value) <= Twice(node.d["maximum"])
    /\ (IsList(value) /\ Has(node, "minItems")) =>
         2 * Len(value.l) >= Twice(node.d["minItems"])
    /\ (IsList(value) /\ Has(node, "maxItems")) =>
         2 * Len(value.l) <= Twice(node.d["maxItems"])
    /\ (IsList(value) /\ Has(node, "items")) =>
         \A i \in 1..Len(value.l) : D7Accepts(value.l[i], node.d["items"], root, depth + 1)
    /\ (IsDict(value) /\ Has(node, "required")) =>
         \A i \in 1..Len(node.d["required"].l) :
            Has(value, Join(node.d["required"].l[i].s))
    /\ IsDict(value) =>
         \A key \in DOMAIN value.d :
            IF Has(Get(node, "properties", Dict(<<>>)), key)
            THEN D7Accepts(value.d[key], node.d["properties"].d[key], root, depth + 1)
            ELSE Has(node, "additionalProperties") =>
                   D7Accepts(value.d[key], node.d["additionalProperties"], root, depth + 1)

\* C16 (as claimed): for a schema of the common keywords, the fallback
\* validator returns the empty list exactly when Draft-7 accepts the instance.
C16_SameVerdict ==
  DirectReturned =>
    ((ret.errors = <<>>) = D7Accepts(call.instance, call.schema, call.root_schema, 1))

(* ------------------------------------------------------------------ *)
(* Single keywords (SpecValidate).                                     *)

\* The shape a type name stands for; an integral numeric is an int, of which
\* the float 2.0 is none.
HasShape(value, name) ==
  CASE name = "object"  -> value.k = "dict"
    [] name = "array"   -> value.k = "list"
    [] name = "string"  -> value.k = "str"
    [] name = "number"  -> value.k \in {"int", "float"}
    [] name = "integer" -> value.k = "int"
    [] name = "boolean" -> value.k = "bool"
    [] name = "null"    -> value.k = "null"
    [] OTHER            -> FALSE
DeclaredShape(value, type) ==
  IF IsList(type)
  THEN \E i \in 1..Len(type.l) : HasShape(value, Join(type.l[i].s))
  ELSE HasShape(value, Join(type.s))

\* C18: for a node whose only keyword is type, a name or a list of names, and
\* an instance of the shape of one of the names, validate returns the empty
\* list.
C18_TypeOnly ==
  (DirectDone /\ call.schema.keys = <<"type">>
     /\ DeclaredShape(call.instance, call.schema.d["type"])) =>
    (pc = "returned" /\ ret.errors = <<>>)

\* null against the node {"type": ["string", "null"]}: the second name matches.
C18_Witness ==
  /\ DirectReturned /\ call.schema.keys = <<"type">>
  /\ IsList(call.schema.d["type"]) /\ IsNone(call.instance)
  /\ ~HasShape(call.instance, Join(call.schema.d["type"].l[1].s))
  /\ DeclaredShape(call.instance, call.schema.d["type"])
  /\ ret.errors = <<>>

FewerError == call.path \o ": array has fewer than " \o PyFormat(call.schema.d["minItems"]) \o " items"
MoreError  == call.path \o ": array has more than " \o PyFormat(call.schema.d["maxItems"]) \o " items"
LengthsAsClaimed ==
  /\ Has(call.schema, "minItems") =>
       Count(OwnErrors, FewerError)
         = IF 2 * Len(call.instance.l) < Twice(call.schema.d["minItems"]) THEN 1 ELSE 0
  /\ Has(call.schema, "maxItems") =>
       Count(OwnErrors, MoreError)
         = IF 2 * Len(call.instance.l) > Twice(call.schema.d["maxItems"]) THEN 1 ELSE 0

\* C19 (as claimed): for a sequence of length n, minItems m gives exactly one
\* error when n < m and none when n >= m, maxItems M exactly one when n > M and
\* none when n <= M, each whatever the other and the elements do.
C19_ItemCounts ==
  (DirectReturned /\ IsList(call.instance)) => LengthsAsClaimed

\* C19 (amended): the same, for a node whose type, if it declares one, the
\* instance matches.
C19_ItemCountsTyped ==
  (DirectReturned /\ IsList(call.instance) /\ ~TypeMismatch) => LengthsAsClaimed

\* A sequence of two elements, too short for minItems and too long for
\* maxItems, with an element that fails items: three errors.
C19_Witness ==
  /\ DirectReturned /\ IsList(call.instance) /\ ~TypeMismatch
  /\ Has(call.schema, "minItems") /\ Has(call.schema, "maxItems") /\ Has(call.schema, "items")
  /\ Len(call.instance.l) = 2
  /\ Count(OwnErrors, FewerError) = 1 /\ Count(OwnErrors, MoreError) = 1
  /\ Len(OwnErrors) = 3

BelowError ==
  call.path \o ": value " \o PyNum(call.instance) \o " < minimum "
    \o PyFormat(call.schema.d["minimum"])
AboveError ==
  call.path \o ": value " \o PyNum(call.instance) \o " > maximum "
    \o PyFormat(call.schema.d["maximum"])
BoundsAsClaimed ==
  /\ IsNumber(call.instance) =>
       /\ Has(call.schema, "minimum") =>
            Count(OwnErrors, BelowError)
              = IF Twice(call.instance) < Twice(call.schema.d["minimum"]) THEN 1 ELSE 0
       /\ Has(call.schema, "maximum") =>
            Count(OwnErrors, AboveError)
              = IF Twice(call.instance) > Twice(call.schema.d["maximum"]) THEN 1 ELSE 0
  /\ IsBool(call.instance) =>
       ret.errors = Run(Without(call.schema, {"minimum", "maximum"})).errors

\* C20 (as claimed): for a number v that is no boolean, minimum a gives exactly
\* one error when v < a and none when v >= a, maximum b exactly one when v > b
\* and none when v <= b, each whatever the other does; a boolean gives neither.
C20_Bounds ==
  DirectReturned => BoundsAsClaimed

\* C20 (amended): the same, for a node whose type, if it declares one, the
\* instance matches.
C20_BoundsTyped ==
  (DirectReturned /\ ~TypeMismatch) => BoundsAsClaimed

\* A number below the minimum and above the maximum of its node: two errors.
C20_Witness ==
  /\ DirectReturned /\ ~TypeMismatch /\ IsNumber(call.instance)
  /\ Has(call.schema, "minimum") /\ Has(call.schema, "maximum")
  /\ Count(OwnErrors, BelowError) = 1 /\ Count(OwnErrors, AboveError) = 1

(* ------------------------------------------------------------------ *)
(* The run of validate-system.py (SpecSystem).                         *)

SystemDone == run.status # "none" /\ pc = "exited"

\* The entries of the manifest in the order main meets them, each with the
\* position in Lists of the list it stands in.
Listed ==
  Flatten([l \in 1..Len(Lists) |->
             [i \in 1..Len(run.manifest[Lists[l]]) |->
                [list |-> l, entry |-> run.manifest[Lists[l]][i]]]])

\* The data file and the schema file of an entry both exist.
BothExist(entry) ==
  /\ FileId(entry.path) \in DOMAIN storage
  /\ entry.schema # <<>>
  /\ FileId(entry.schema) \in DOMAIN storage

\* "validate": false on an entry of required_files.
SwitchedOff(x) == x.list = 1 /\ ~x.entry.validate

EntriesOf(xs) == [i \in 1..Len(xs) |-> xs[i].entry]
IsPrefix(a, b) == Len(a) <= Len(b) /\ a = SubSeq(b, 1, Len(a))

RECURSIVE IsSubSeq(_, _)
IsSubSeq(a, b) ==
  IF a = <<>> THEN TRUE
  ELSE IF b = <<>> THEN FALSE
  ELSE IF Head(a) = Head(b) THEN IsSubSeq(Tail(a), Tail(b))
  ELSE IsSubSeq(a, Tail(b))

SomeCallRaised   == \E k \in DOMAIN run.calls : run.calls[k].kind = "raise"
SomeCallReported == \E k \in DOMAIN run.calls : run.calls[k].errors # <<>>
ReportsPassed    == \E i \in DOMAIN run.out : run.out[i] = "System validation passed."

\* The calls of validate_file of a run that ended are the entries of due, one
\* call each and in their order; a run that a raising call ended made the
\* calls up to that one.
CallsAre(due) ==
  SystemDone =>
    /\ IsPrefix(EntriesOf(run.calls), EntriesOf(due))
    /\ ~SomeCallRaised => Len(run.calls) = Len(due)

\* Every error a call returned is in the error list of the run behind the data
\* path of the call's entry, in the order of the calls; a call that returned
\* errors makes the run end with status 1; a call that raised ended the run at
\* once with a failure status; neither run prints 'System validation passed.'.
ErrorsAreFatal ==
  run.status # "none" =>
    /\ IsSubSeq(Flatten([k \in DOMAIN run.calls |->
                           [i \in 1..Len(run.calls[k].errors) |->
                              Join(run.calls[k].entry.path) \o ": "
                                \o run.calls[k].errors[i]]]),
                run.errors)
    /\ (SystemDone /\ SomeCallReported) => run.code = 1
    /\ SomeCallRaised => (SystemDone /\ run.code = 1)
    /\ (SomeCallReported \/ SomeCallRaised) => ~ReportsPassed

\* C17: validate-system calls validate_file once for each manifest entry
\* whose data file and schema file both exist, adds every returned error to
\* its error list prefixed with the entry's data path, exits with failure
\* whenever a call returned a non-empty list, ends with failure when a call
\* raises, and prints 'System validation passed.' in neither case.
C17_Pipeline ==
  /\ CallsAre(SelectSeq(Listed, LAMBDA x : BothExist(x.entry)))
  /\ ErrorsAreFatal

\* C17 as it holds: the same, where the entries validated are those whose data
\* file and schema file both exist and that are not entries of required_files
\* with "validate": false.
C17_PipelineUnlessSwitchedOff ==
  /\ CallsAre(SelectSeq(Listed, LAMBDA x : BothExist(x.entry) /\ ~SwitchedOff(x)))
  /\ ErrorsAreFatal

\* A run over an entry with "validate": false whose files both exist and an
\* entry whose call returned errors ended with status 1.
C17_Witness ==
  /\ SystemDone
  /\ run.status = "exited"
  /\ \E i \in DOMAIN Listed : BothExist(Listed[i].entry) /\ SwitchedOff(Listed[i])
  /\ Len(run.calls) = 1
  /\ SomeCallReported
  /\ run.code = 1

(* ------------------------------------------------------------------ *)
(* Keywords validate does not know (SpecValidate).                     *)

\* Keywords of Draft-7 that validate never reads, each with a value that a
\* validator reading it would hold against some instance.
Unrecognized ==
  { <<"oneOf", List(<<TypeIs("null"), TypeIs("boolean")>>)>>,
    <<"not", Dict(<<>>)>>,
    <<"const", Null>>,
    <<"allOf", List(<<TypeIs("null")>>)>>,
    <<"format", A("date")>> }

\* The node with the keyword kw = <<name, value>> added, and the node with the
\* value of one of its keys replaced.
With(node, kw) ==
  [k |-> "dict", keys |-> Append(node.keys, kw[1]), d |-> (kw[1] :> kw[2]) @@ node.d]
Put(node, key, value) == [node EXCEPT !.d[key] = value]

\* The documents got from node by adding kw to exactly one schema node of it:
\* the node itself, or a node under items, anyOf, properties or definitions.
RECURSIVE Variants(_, _)
Variants(node, kw) ==
  IF ~IsDict(node) \/ Has(node, kw[1]) THEN {}
  ELSE {With(node, kw)}
    \cup (IF Has(node, "items")
          THEN {Put(node, "items", v) : v \in Variants(node.d["items"], kw)}
          ELSE {})
    \cup (IF Has(node, "anyOf") /\ IsList(node.d["anyOf"])
          THEN UNION { {Put(node, "anyOf", List([node.d["anyOf"].l EXCEPT ![i] = v])) :
                          v \in Variants(node.d["anyOf"].l[i], kw)} :
                       i \in 1..Len(node.d["anyOf"].l) }
          ELSE {})
    \cup UNION { IF Has(node, key) /\ IsDict(node.d[key])
                 THEN UNION { {Put(node, key, Put(node.d[key], name, v)) :
                                 v \in Variants(node.d[key].d[name], kw)} :
                              name \in DOMAIN node.d[key].d }
                 ELSE {} :
                 key \in {"properties", "definitions"} }

\* The call of the state made again with root in the place of the root
\* document: the node validated is the root where it was, and the node of the
\* call (a reference to the root) otherwise.
RunUnder(schema, root) ==
  validate(call.instance, schema, call.base_dir, root, call.path, 1, storage,
           [cache |-> call.cache, parses |-> call.parses, trace |-> <<>>])

SameAsReturned(f) == f.exc = NoExc /\ f.errors = ret.errors

\* C21: when a call of validate returned a list, the call made again after a
\* keyword validate does not know (oneOf, not, const, allOf, format) was added
\* to any one schema node returns the same list, and does not raise.
C21_UnknownKeywordsIgnored ==
  DirectReturned =>
    \A kw \in Unrecognized :
      /\ \A root \in Variants(call.root_schema, kw) :
           SameAsReturned(RunUnder(IF call.schema = call.root_schema THEN root
                                   ELSE call.schema, root))
      /\ call.schema # call.root_schema =>
           SameAsReturned(RunUnder(With(call.schema, kw), call.root_schema))

\* A call on a node with nodes below it returned without errors on an instance
\* that is not null: a validator reading "const": null would report it.
C21_Witness ==
  /\ DirectReturned
  /\ call.schema = call.root_schema
  /\ ret.errors = <<>>
  /\ ~IsNone(call.instance)
  /\ Cardinality(Variants(call.root_schema, <<"const", Null>>)) >= 3
  /\ SameAsReturned(RunUnder(With(call.schema, <<"const", Null>>),
                             With(call.schema, <<"const", Null>>)))

(* ------------------------------------------------------------------ *)
(* resolve_pointer (SpecResolve).                                       *)

PointerDone == call.op = "resolve_pointer" /\ pc \in {"returned", "aborted"}

\* A key written into a pointer: "~" as "~0", then "/" as "~1".
RECURSIVE Escape(_)
Escape(key) ==
  IF key = <<>> THEN <<>>
  ELSE (IF Head(key) = "~" THEN <<"~", "0">>
        ELSE IF Head(key) = "/" THEN <<"~", "1">>
        ELSE <<Head(key)>>) \o Escape(Tail(key))

\* The keys, of at least one character, whose escaped form fits a pointer.
KeyChars == PointerChars
Keys ==
  { key \in UNION { [1..n -> KeyChars] : n \in 1..(MaxPointerLen - 2) } :
      Len(Escape(key)) <= MaxPointerLen - 2 }

\* The pointers that are "#/" and an escaped key, each with its key.
KeyPointers == { [key |-> key, pointer |-> <<"#", "/">> \o Escape(key)] : key \in Keys }

\* The pointer without one leading "#" and one leading "/".
Stripped(pointer) ==
  LET p1 == IF pointer # <<>> /\ pointer[1] = "#" THEN SubSeq(pointer, 2, Len(pointer))
            ELSE pointer
  IN IF p1 # <<>> /\ p1[1] = "/" THEN SubSeq(p1, 2, Len(p1)) ELSE p1

\* One key lookup per key of keys, in order; nothing is found when a key is
\* missing or the node at hand is no mapping.
NotFound == [found |-> FALSE]
RECURSIVE Lookups(_, _)
Lookups(node, keys) ==
  IF keys = <<>> THEN [found |-> TRUE, node |-> node]
  ELSE IF IsDict(node) /\ Join(Head(keys)) \in DOMAIN node.d
  THEN Lookups(node.d[Join(Head(keys))], Tail(keys))
  ELSE NotFound

Returned(found) ==
  IF found = NotFound THEN pc = "aborted"
  ELSE pc = "returned" /\ ret.node = found.node

\* The result is the whole document for the pointers of whole, and for every
\* other pointer what the lookups of its unescaped segments give.
PointerResolves(whole) ==
  PointerDone =>
    IF call.pointer \in whole
    THEN pc = "returned" /\ ret.node = call.schema
    ELSE Returned(Lookups(call.schema,
           [i \in 1..Len(Split(Stripped(call.pointer), "/")) |->
              Unescape(Split(Stripped(call.pointer), "/")[i])]))

\* A pointer that is "#/" and an escaped key resolves to the value of that key.
KeysRoundTrip ==
  PointerDone =>
    \A written \in KeyPointers :
      call.pointer = written.pointer =>
        /\ Unescape(Stripped(written.pointer)) = written.key
        /\ Returned(Lookups(call.schema, <<written.key>>))

\* C22: resolve_pointer returns the whole document for the pointers "", "#"
\* and "#/"; for any other pointer it strips one leading "#" and one leading
\* "/", splits the rest on "/", unescapes each segment so that an escaped key
\* comes back as the key, and returns the node reached by one key lookup per
\* segment in order.
C22_PointerResolution ==
  /\ PointerResolves({<<>>, <<"#">>, <<"#", "/">>})
  /\ KeysRoundTrip

\* C22 as it holds: the same, with the pointer "/" among those that give the
\* whole document.
C22_PointerResolutionSlash ==
  /\ PointerResolves({<<>>, <<"#">>, <<"#", "/">>, <<"/">>})
  /\ KeysRoundTrip

\* The pointer "#/~01" found the value of the key "~1".
C22_Witness ==
  /\ PointerDone
  /\ call.pointer = <<"#", "/", "~", "0", "1">>
  /\ pc = "returned"
  /\ ret.node = call.schema.d["~1"]

(* ------------------------------------------------------------------ *)
(* resolve_ref on a reference into the root (SpecResolve).             *)

RefDone   == call.op = "resolve_ref" /\ pc \in {"returned", "aborted"}
LocalRef  == StartsWith(call.ref, "#")

\* What the pointer selects in the document.
Selected(document, pointer) ==
  IF Stripped(pointer) = <<>> THEN [found |-> TRUE, node |-> document]
  ELSE Lookups(document,
         [i \in 1..Len(Split(Stripped(pointer), "/")) |->
            Unescape(Split(Stripped(pointer), "/")[i])])

\* C23: for a ref that starts with "#", resolve_ref returns the node the
\* pointer selects in the root document, with the base directory and the root
\* document it was given; it loads no file and leaves SCHEMA_CACHE as it was.
C23_LocalRef ==
  (RefDone /\ LocalRef) =>
    /\ Returned(Selected(call.root_schema, call.ref))
    /\ pc = "returned" => (ret.base = call.base_dir /\ ret.root = call.root_schema)
    /\ parses = <<>>
    /\ SCHEMA_CACHE = call.cache

\* "#/0/1" was resolved in the document, with a file in the cache before.
C23_Witness ==
  /\ RefDone
  /\ call.ref = <<"#", "/", "0", "/", "1">>
  /\ call.cache # <<>>
  /\ pc = "returned"
  /\ ret.node = A("x")
  /\ ret.root = PointerDoc

(* ------------------------------------------------------------------ *)
(* Termination of validate (Spec).                                     *)

\* validate was entered by the call of the state.
Validated == Fallback /\ ret.trace # <<>>

\* A context is what a validate call is made on besides the instance: the
\* node, the base directory and the root document.  A call on a context makes
\* calls on the same instance in the contexts of FlatNext (the target of $ref,
\* the alternatives of anyOf) and calls on the parts of the instance in the
\* contexts of DeepNext (items, the values of properties).
Context(schema, base_dir, root_schema) ==
  [schema |-> schema, base_dir |-> base_dir, root_schema |-> root_schema]

RefTarget(c) ==
  LET r == resolve_ref(c.schema.d["$ref"].s, c.base_dir, c.root_schema, storage,
                       call.cache, <<>>)
  IN IF r.exc = NoExc THEN {Context(r.target, r.base, r.root)} ELSE {}

FlatNext(c) ==
  IF ~IsDict(c.schema) THEN {}
  ELSE (IF Has(c.schema, "$ref") /\ IsStr(c.schema.d["$ref"]) THEN RefTarget(c) ELSE {})
    \cup (IF Has(c.schema, "anyOf") /\ IsList(c.schema.d["anyOf"])
          THEN {[c EXCEPT !.schema = c.schema.d["anyOf"].l[i]] :
                  i \in 1..Len(c.schema.d["anyOf"].l)}
          ELSE {})

DeepNext(c) ==
  IF ~IsDict(c.schema) THEN {}
  ELSE (IF Has(c.schema, "items") THEN {[c EXCEPT !.schema = c.schema.d["items"]]}
        ELSE {})
    \cup (IF Has(c.schema, "properties") /\ IsDict(c.schema.d["properties"])
          THEN {[c EXCEPT !.schema = c.schema.d["properties"].d[key]] :
                  key \in DOMAIN c.schema.d["properties"].d}
          ELSE {})

\* The contexts reached from those of new by steps of FlatNext, and by steps
\* of either kind, added to seen.
RECURSIVE FlatReach(_, _)
FlatReach(new, seen) ==
  IF new = {} THEN seen
  ELSE FlatReach((UNION {FlatNext(c) : c \in new}) \ (seen \cup new), seen \cup new)
RECURSIVE AllReach(_, _)
AllReach(new, seen) ==
  IF new = {} THEN seen
  ELSE AllReach((UNION {FlatNext(c) \cup DeepNext(c) : c \in new}) \ (seen \cup new),
                seen \cup new)

\* The contexts a call reaches on the instance of the call on c, c apart.
FlatBelow(c) == FlatReach(FlatNext(c), {})

\* The contexts of the call of the state.
Contexts ==
  LET schema == storage[FileId(call.schema_path)].doc
  IN AllReach({Context(schema, DirName(call.schema_path), schema)}, {})

\* Every $ref cycle passes through items or properties, or there is none: no
\* context is reached from itself on the same instance.
WellFounded == \A c \in Contexts : c \notin FlatBelow(c)

\* The nesting depth of a value: 0 for a scalar.
RECURSIVE InstanceDepth(_)
InstanceDepth(v) ==
  IF IsList(v)
  THEN IF v.l = <<>> THEN 1
       ELSE 1 + InstanceDepth(v.l[CHOOSE i \in 1..Len(v.l) :
                  \A j \in 1..Len(v.l) : InstanceDepth(v.l[j]) <= InstanceDepth(v.l[i])])
  ELSE IF IsDict(v)
  THEN IF v.keys = <<>> THEN 1
       ELSE 1 + InstanceDepth(v.d[CHOOSE key \in DOMAIN v.d :
                  \A other \in DOMAIN v.d : InstanceDepth(v.d[other]) <= InstanceDepth(v.d[key])])
  ELSE 0

\* The longest chain of calls on one instance, as a count of contexts.
SchemaDepth ==
  LET sizes == {Cardinality(FlatBelow(c)) : c \in Contexts}
  IN 1 + CHOOSE n \in sizes : \A other \in sizes : other <= n

\* The bound on the depth of the recursion: one chain of calls for the
\* instance and for each level of nesting below it.
DepthBound ==
  (InstanceDepth(storage[FileId(call.data_path)].doc) + 1) * SchemaDepth

\* The call of the state needs n nested frames or more: made again with
\* RecursionLimit - n + 1 frames on the stack already, it meets the limit.
NeedsFrames(n) ==
  validate(storage[FileId(call.data_path)].doc, storage[FileId(call.schema_path)].doc,
           DirName(call.schema_path), storage[FileId(call.schema_path)].doc, "$",
           RecursionLimit - n + 2, storage,
           [cache |-> call.cache, parses |-> call.parses, trace |-> <<>>]).exc.type
    = "RecursionError"

DepthIsBounded ==
  (pc = "returned" /\ DepthBound < RecursionLimit) => ~NeedsFrames(DepthBound + 1)

\* C24: on schema documents in which every $ref cycle passes through items or
\* properties, or that have no cycle, validate returns a list of errors for
\* every instance, and the depth of its recursion is bounded by the depth of
\* the schema and the depth of the instance.
C24_Terminates ==
  (Validated /\ WellFounded) =>
    /\ ret.exc.type # "RecursionError"
    /\ DepthIsBounded

(* ------------------------------------------------------------------ *)
(* $ref beside other keywords (SpecValidate).                          *)

\* The node of the call has "$ref"; the target is a node of the root document.
RefWithSiblings ==
  /\ DirectReturned
  /\ call.schema = call.root_schema
  /\ Has(call.schema, "$ref")

\* The errors of the instance against the target of the node's "$ref", and
\* against the node without its "$ref".
TargetErrors ==
  Run(resolve_pointer(call.root_schema, call.schema.d["$ref"].s).node).errors
SiblingErrors == Run(Without(call.schema, {"$ref"})).errors

\* C25: for a node that has "$ref" and other keywords, the list returned is
\* the errors of the instance against the target followed by the errors of
\* the node's other keywords: it is empty only when both are.
C25_RefAndSiblings ==
  RefWithSiblings =>
    /\ ret.errors = TargetErrors \o SiblingErrors
    /\ ret.errors = <<>> <=> (TargetErrors = <<>> /\ SiblingErrors = <<>>)

\* The target and the other keywords each reported the instance.
C25_Witness ==
  /\ RefWithSiblings
  /\ TargetErrors # <<>>
  /\ SiblingErrors # <<>>
  /\ Len(ret.errors) >= 2

(* ------------------------------------------------------------------ *)
(* The order of the alternatives of anyOf (SpecValidate).              *)

\* The orders of n things.
Orders(n) == {p \in [1..n -> 1..n] : \A i \in 1..n : \A j \in 1..n : p[i] = p[j] => i = j}

\* The node with its alternatives in the order p.
Reordered(node, p) ==
  Put(node, "anyOf", List([i \in 1..Len(node.d["anyOf"].l) |-> node.d["anyOf"].l[p[i]]]))

\* f ends as the call of the state did: with the same list, or with an
\* exception as the call did.
SameOutcome(f) ==
  IF pc = "returned" THEN f.exc = NoExc /\ f.errors = ret.errors
  ELSE f.exc # NoExc

\* C26: for a node with anyOf, the call made again with the alternatives in
\* any other order ends as the call did: it returns the same list, or it
\* raises as the call did, also when one alternative has a $ref that cannot
\* be resolved and another matches.
C26_AnyOfOrder ==
  (DirectDone /\ call.schema = call.root_schema /\ Has(call.schema, "anyOf")) =>
    \A p \in Orders(Len(call.schema.d["anyOf"].l)) :
      SameOutcome(RunUnder(Reordered(call.schema, p), Reordered(call.schema, p)))

(* ------------------------------------------------------------------ *)
(* The steps of compile-system.py (SpecCompile).                       *)

Compiling == run.status \in {"running", "raised", "exited"} /\ "log" \in DOMAIN run

\* The steps of a complete run, in the order claimed: three scripts, the
\* metadata of every expected output, three scripts.
StepsClaimed ==
  <<"bin/sync-defs.py", "bin/generate-sections.py", "bin/generate-outputs.py">>
  \o [i \in 1..Len(run.expected_outputs) |-> "metadata"]
  \o <<"bin/validate-system.py", "bin/validate-consistency.py", "bin/audit-system.py">>

\* A step failed: its script left with a code other than 0, or the expected
\* output was missing or could not be stamped.
Failed(event) ==
  IF event.step = "metadata" THEN event.exc # NoExc ELSE event.code # 0

PrintedComplete == \E i \in DOMAIN run.out : run.out[i] = "Compilation complete."

\* C27: compile-system starts its steps in the order sync-defs,
\* generate-sections, generate-outputs, the metadata of every expected output,
\* validate-system, validate-consistency, audit-system; a step is started only
\* when every earlier step succeeded; a step that fails is the last one and
\* the run has ended with a failure; 'Compilation complete.' is printed only
\* when all steps were run and succeeded.
C27_StepsInOrder ==
  Compiling =>
    /\ IsPrefix([i \in 1..Len(run.log) |-> run.log[i].step], StepsClaimed)
    /\ \A i \in 1..Len(run.log) :
         /\ run.log[i].step = "metadata" =>
              run.log[i].path =
                run.expected_outputs[i - Len(ScriptsBefore)]
         /\ Failed(run.log[i]) =>
              (i = Len(run.log) /\ pc = "exited" /\ run.status = "raised" /\ run.code # 0)
    /\ PrintedComplete =>
         /\ Len(run.log) = Len(StepsClaimed)
         /\ \A i \in 1..Len(run.log) : ~Failed(run.log[i])
         /\ Len(run.stamped) = Len(run.expected_outputs)

\* A run that validate-system.py ended with code 1 after both expected
\* outputs got their metadata.
C27_Witness ==
  /\ Compiling
  /\ Len(run.expected_outputs) = 2
  /\ Len(run.stamped) = 2
  /\ Len(run.log) = 6
  /\ run.log[6].step = "bin/validate-system.py"
  /\ run.log[6].code = 1
  /\ run.status = "raised"
  /\ ~PrintedComplete

====
